---- MODULE Spec2Model ----
(***************************************************************************)
(* Model of the session-state and mission-note subsystems of jarvis:       *)
(*   backend/app/workflows/mission_notes.py   (document update workflow)   *)
(*   backend/app/services/temporal_client.py  (workflow execution)         *)
(*   backend/app/api/mission_notes.py         (HTTP mapping of results)    *)
(*   backend/app/services/session_state.py    (session cache, offline      *)
(*                                             queue)                      *)
(***************************************************************************)
EXTENDS Integers, Sequences, FiniteSets, TLC

VARIABLES
    client,     \* TemporalService.client is set (connect() succeeded)
    wf,         \* request id -> the MissionNoteUpdateWorkflow run of that request
    res,        \* the MissionNoteConflictResolutionWorkflow run
    stream,     \* events xadd-ed to session:mission:<id>:events, oldest first
    redisQueue, \* session id -> the Redis list session:queue:<id> (JSON strings)
    queueTtl,   \* session id -> the key session:queue:<id> has a time to live
    task,       \* task id -> the handler that task is executing, and its locals
    qlog,       \* history: the pushes, returned lists and expiries, oldest first
    cache,      \* session id -> the JSON value at session:state:<id>, or None
    cacheTtl,   \* session id -> the time to live of that key
    dbSession,  \* session id -> the voice_sessions row, or None
    snapshots,  \* session id -> the session_snapshots rows, by created_at
    pending,    \* the _save_snapshot_to_db tasks created and not yet finished
    clock,      \* datetime.utcnow(), one tick per handler call
    lastOp,     \* history: the last handler call and what it returned
    lastActive  \* history: session id -> is_active as last stored or returned

docVars == <<client, wf, res, stream>>
queueVars == <<redisQueue, queueTtl, task, qlog>>
sessVars == <<cache, cacheTtl, dbSession, snapshots, pending, clock, lastOp,
              lastActive>>
vars == <<client, wf, res, stream, redisQueue, queueTtl, task, qlog, cache,
          cacheTtl, dbSession, snapshots, pending, clock, lastOp, lastActive>>

(***************************************************************************)
(* Bounds of the model.                                                    *)
(***************************************************************************)
MaxReqs == 2        \* update requests submitted in one behaviour
MaxVersion == 2     \* expected_version ranges over 0..MaxVersion

MaxConflicting == 2 \* length of the conflicting_updates list
ResAttemptCap == 4  \* failed attempts of one resolution activity that are followed
MaxTasks == 2       \* queue handlers running at once
MaxActions == 3     \* offline actions enqueued in one behaviour
MaxDrains == 3      \* replay_offline_queue calls in one behaviour
MaxClock == 4       \* session handler calls in one behaviour
MaxPending == 1     \* snapshot tasks pending at once

Reqs == 1..MaxReqs
Users == {"u1", "u2"}
Contents == {"A", "B"}
Tasks == 1..MaxTasks
QSessions == {"s1"}
Sessions == {"s1"}
Devices == {"d1", "d2"}
MetaKeys == {"k1", "k2", "reconnected", "reconnect_time"}
Absent == "absent"

None == "None"

(***************************************************************************)
(* mission_notes.py: the activities.                                       *)
(***************************************************************************)

\* RetryPolicy(maximum_attempts=3) of MissionNoteUpdateWorkflow.run
maximum_attempts == 3

\* fetch_note_version: the body sleeps and returns the placeholder 1; the
\* database read is a comment.
fetch_note_version == 1

\* A variant that checks the version as the commented-out body would: the
\* write is refused once an attempt has written the version after the
\* expected one.
update_note_in_db_checked(content, expected_version, user_id) ==
    IF \E r \in Reqs : \E i \in 1..Len(wf[r].committed) :
         wf[r].committed[i] = expected_version + 1
    THEN [success |-> FALSE, current_version |-> expected_version + 1,
          conflict |-> TRUE, error |-> "Version conflict"]
    ELSE [success |-> TRUE, current_version |-> expected_version + 1,
          conflict |-> FALSE, error |-> None]

\* update_note_in_db: the body sleeps and returns the placeholder result; the
\* row lock, the version check and the write are a comment.  No row is read
\* or written.
update_note_in_db(content, expected_version, user_id) ==
    [success |-> TRUE, current_version |-> expected_version + 1,
     conflict |-> FALSE, error |-> None]

\* broadcast_note_update: one xadd of the note_updated event.  by is not part
\* of the event: it records which run published it.
broadcast_note_update(s, version, by) ==
    Append(s, [event_type |-> "note_updated", version |-> version, by |-> by])

(***************************************************************************)
(* mission_notes.py: MissionNoteUpdateWorkflow.run                         *)
(***************************************************************************)

NoResult == [success |-> FALSE, current_version |-> -1,
             conflict |-> FALSE, error |-> None]

\* The run that has not been started.  committed is history: the versions
\* the run's update_note_in_db attempts that ran to their end reported as
\* written, oldest first, whether or not the attempt's result reached the
\* workflow.
IdleRun ==
    [pc |-> "idle", via |-> None, expected_version |-> 0, user_id |-> None,
     current_version |-> -1, attempt |-> 0, update_result |-> NoResult,
     outcome |-> None, result |-> NoResult, raised |-> None, committed |-> <<>>]

\* A policy that allows one attempt more than maximum_attempts.
MayRetryOffByOne(n) == n <= maximum_attempts

\* Whether the retry policy allows another attempt after n failed ones.
MayRetry(n) == n < maximum_attempts

\* A comparison that reports a mismatch only when the store is ahead.
VersionMismatchOnlyNewer(current_version, expected_version) ==
    current_version > expected_version

\* Step 2 of run: the comparison of the fetched version with the request's.
VersionMismatch(current_version, expected_version) ==
    current_version # expected_version

\* The result run returns at step 2.
ConflictResult(current_version) ==
    [success |-> FALSE, current_version |-> current_version,
     conflict |-> TRUE, error |-> "Version mismatch"]

\* An activity attempt failed: the policy retries it, or the ActivityError
\* propagates out of run and the workflow fails.
ActivityFailed(w, activity) ==
    IF MayRetry(w.attempt + 1)
    THEN [w EXCEPT !.attempt = w.attempt + 1]
    ELSE [w EXCEPT !.attempt = w.attempt + 1, !.pc = "Failed",
                   !.outcome = "raised", !.raised = activity]

\* A step 2 that fetches again on a mismatch.
AfterFetchRetry(w, v) ==
    IF VersionMismatch(v, w.expected_version)
    THEN [w EXCEPT !.attempt = 0, !.current_version = v]
    ELSE [w EXCEPT !.pc = "ConditionalWrite", !.attempt = 0,
                   !.current_version = v]

\* A step 2 that raises on a mismatch.
AfterFetchRaises(w, v) ==
    IF VersionMismatch(v, w.expected_version)
    THEN [w EXCEPT !.pc = "Failed", !.attempt = maximum_attempts,
                   !.current_version = v, !.outcome = "raised",
                   !.raised = "fetch_note_version"]
    ELSE [w EXCEPT !.pc = "ConditionalWrite", !.attempt = 0,
                   !.current_version = v]

\* A step 2 that goes on to the broadcast without the write.
AfterFetchSkipsWrite(w, v) ==
    IF VersionMismatch(v, w.expected_version)
    THEN [w EXCEPT !.pc = "Conflict", !.attempt = w.attempt + 1,
                   !.current_version = v, !.outcome = "returned",
                   !.result = ConflictResult(v)]
    ELSE [w EXCEPT !.pc = "Broadcast", !.attempt = 0, !.current_version = v]

\* Step 1 returned v: step 2 returns the conflict result or goes on to step 3.
AfterFetch(w, v) ==
    IF VersionMismatch(v, w.expected_version)
    THEN [w EXCEPT !.pc = "Conflict", !.attempt = w.attempt + 1,
                   !.current_version = v, !.outcome = "returned",
                   !.result = ConflictResult(v)]
    ELSE [w EXCEPT !.pc = "ConditionalWrite", !.attempt = 0,
                   !.current_version = v]

\* Step 3 returned u: step 4 broadcasts if it succeeded, else run returns u.
AfterWrite(w, u) ==
    IF u.success
    THEN [w EXCEPT !.pc = "Broadcast", !.attempt = 0, !.update_result = u]
    ELSE [w EXCEPT !.pc = IF u.conflict THEN "Conflict" ELSE "Failed",
                   !.attempt = w.attempt + 1, !.update_result = u,
                   !.outcome = "returned", !.result = u]

\* Step 4 returned: run returns update_result.
AfterBroadcast(w) ==
    [w EXCEPT !.pc = "Done", !.attempt = w.attempt + 1,
              !.outcome = "returned", !.result = w.update_result]

(***************************************************************************)
(* api/mission_notes.py and temporal_client.py: a request starts a run.    *)
(***************************************************************************)

\* create_note builds its UpdateNoteRequest with expected_version=0.
RequestVersions(via) == IF via = "create_note" THEN {0} ELSE 0..MaxVersion

\* create_note / update_note: 503 when the client is not connected, else
\* execute_note_update starts the workflow and awaits its result.
Submit(r) ==
    /\ wf[r].pc = "idle"
    /\ \E via \in {"create_note", "update_note"}, u \in Users :
         \E e \in RequestVersions(via) :
           wf' = [wf EXCEPT ![r] =
                    [IdleRun EXCEPT
                       !.pc = IF client THEN "FetchVersion" ELSE "Unavailable",
                       !.via = via, !.expected_version = e, !.user_id = u]]
    /\ UNCHANGED <<client, res, stream, queueVars, sessVars>>

\* update_note: what the HTTP caller gets for a finished request.  A raised
\* workflow failure reaches "except Exception" and becomes a 500 whose detail
\* is str(e), the failure's message, which does not name the activity.
update_note_response(w) ==
    IF w.pc = "Unavailable"
    THEN [status |-> 503, version |-> -1, expected_version |-> -1,
          detail |-> "Temporal service unavailable"]
    ELSE IF w.outcome = "raised"
    THEN [status |-> 500, version |-> -1, expected_version |-> -1,
          detail |-> "Workflow execution failed"]
    ELSE IF w.result.conflict
    THEN [status |-> 409, version |-> w.result.current_version,
          expected_version |-> w.expected_version,
          detail |-> "Version conflict"]
    ELSE IF ~w.result.success
    THEN [status |-> 500, version |-> -1, expected_version |-> -1,
          detail |-> "Failed to update note"]
    ELSE [status |-> 200, version |-> w.result.current_version,
          expected_version |-> -1, detail |-> "Note updated successfully"]

\* create_note: what the HTTP caller may get for a finished request.  The 409
\* raised inside the try block for an unsuccessful result is caught by
\* "except Exception" and becomes a 500 whose detail is str(e) of the
\* HTTPException: empty, or its status and detail, by the library's version.
create_note_responses(w) ==
    IF w.pc = "Unavailable"
    THEN {[status |-> 503, version |-> -1, expected_version |-> -1,
           detail |-> "Temporal service unavailable"]}
    ELSE IF w.outcome = "raised"
    THEN {[status |-> 500, version |-> -1, expected_version |-> -1,
           detail |-> "Workflow execution failed"]}
    ELSE IF ~w.result.success
    THEN {[status |-> 500, version |-> -1, expected_version |-> -1,
           detail |-> d] : d \in {"", "409: " \o w.result.error}}
    ELSE {[status |-> 200, version |-> w.result.current_version,
           expected_version |-> -1, detail |-> "Note created successfully"]}

\* The answers the endpoint a request came through may give.
Responses(w) ==
    IF w.via = "create_note" THEN create_note_responses(w)
    ELSE {update_note_response(w)}

FetchFails(r) ==
    /\ wf[r].pc = "FetchVersion"
    /\ wf' = [wf EXCEPT ![r] = ActivityFailed(wf[r], "fetch_note_version")]
    /\ UNCHANGED <<client, res, stream, queueVars, sessVars>>

FetchReturns(r) ==
    /\ wf[r].pc = "FetchVersion"
    /\ wf' = [wf EXCEPT ![r] = AfterFetch(wf[r], fetch_note_version)]
    /\ UNCHANGED <<client, res, stream, queueVars, sessVars>>

WriteFails(r) ==
    /\ wf[r].pc = "ConditionalWrite"
    /\ wf' = [wf EXCEPT ![r] = ActivityFailed(wf[r], "update_note_in_db")]
    /\ UNCHANGED <<client, res, stream, queueVars, sessVars>>

\* The versions an attempt of update_note_in_db with result u has written.
WrittenBy(u) == IF u.success THEN <<u.current_version>> ELSE <<>>

WriteReturns(r) ==
    /\ wf[r].pc = "ConditionalWrite"
    /\ LET u == update_note_in_db(r, wf[r].expected_version, wf[r].user_id)
       IN  wf' = [wf EXCEPT ![r] =
                    [AfterWrite(wf[r], u) EXCEPT
                       !.committed = @ \o WrittenBy(u)]]
    /\ UNCHANGED <<client, res, stream, queueVars, sessVars>>

\* An attempt of update_note_in_db ran to its end, and its result did not
\* reach the workflow (the start_to_close_timeout passed, or the worker was
\* lost, before the completion was recorded): the attempt counts as failed.
WriteLost(r) ==
    /\ wf[r].pc = "ConditionalWrite"
    /\ LET u == update_note_in_db(r, wf[r].expected_version, wf[r].user_id)
       IN  wf' = [wf EXCEPT ![r] =
                    [ActivityFailed(wf[r], "update_note_in_db") EXCEPT
                       !.committed = @ \o WrittenBy(u)]]
    /\ UNCHANGED <<client, res, stream, queueVars, sessVars>>

BroadcastFails(r) ==
    /\ wf[r].pc = "Broadcast"
    /\ wf' = [wf EXCEPT ![r] = ActivityFailed(wf[r], "broadcast_note_update")]
    /\ UNCHANGED <<client, res, stream, queueVars, sessVars>>

BroadcastReturns(r) ==
    /\ wf[r].pc = "Broadcast"
    /\ stream' = broadcast_note_update(stream,
                                       wf[r].update_result.current_version, r)
    /\ wf' = [wf EXCEPT ![r] = AfterBroadcast(wf[r])]
    /\ UNCHANGED <<client, res, queueVars, sessVars>>

(***************************************************************************)
(* mission_notes.py: MissionNoteConflictResolutionWorkflow.run             *)
(***************************************************************************)

\* Python's str ordering of the user ids of the model.
UserRank(u) == IF u = "u1" THEN 1 ELSE 2

\* sorted(conflicting_updates, key=lambda x: x.user_id): a stable sort, here
\* by insertion of each element after the elements that are not greater.
RECURSIVE InsertByUser(_, _)
InsertByUser(sorted, x) ==
    IF sorted = <<>> THEN <<x>>
    ELSE IF UserRank(sorted[Len(sorted)].user_id) <= UserRank(x.user_id)
         THEN Append(sorted, x)
         ELSE Append(InsertByUser(SubSeq(sorted, 1, Len(sorted) - 1), x),
                     sorted[Len(sorted)])

RECURSIVE SortedByUser(_)
SortedByUser(updates) ==
    IF updates = <<>> THEN <<>>
    ELSE InsertByUser(SortedByUser(SubSeq(updates, 1, Len(updates) - 1)),
                      updates[Len(updates)])

\* A choice of the first element of the sorted list.
FirstUpdate(updates) == SortedByUser(updates)[1]

\* final_update = sorted_updates[-1]
FinalUpdate(updates) == SortedByUser(updates)[Len(updates)]

\* The UpdateNoteRequest objects a caller may pass as conflicting_updates.
ConflictingRequests ==
    [user_id : Users, content : Contents, expected_version : 0..MaxVersion]

\* The non-empty lists of at most MaxConflicting of them.
ConflictingLists ==
    UNION {[1..n -> ConflictingRequests] : n \in 1..MaxConflicting}

NoUpdate == [user_id |-> None, content |-> None, expected_version |-> 0]

\* conflicting_updates is the list the run was started with; written is
\* history: the contents its update_note_in_db calls that returned were
\* given, oldest first.
IdleResolution ==
    [pc |-> "idle", conflicting_updates |-> <<>>, final_update |-> NoUpdate,
     current_version |-> -1, attempt |-> 0, update_result |-> NoResult,
     outcome |-> None, result |-> NoResult, raised |-> None, written |-> <<>>]

\* The activities of the resolution run are executed without a retry_policy:
\* Temporal's default policy applies, which sets no maximum number of attempts.
ResMayRetry(n) == TRUE

ResActivityFailed(w, activity) ==
    IF ResMayRetry(w.attempt + 1)
    THEN [w EXCEPT !.attempt = w.attempt + 1]
    ELSE [w EXCEPT !.attempt = w.attempt + 1, !.pc = "Failed",
                   !.outcome = "raised", !.raised = activity]

\* final_update.expected_version = current_version, then the update activity.
ResAfterFetch(w, v) ==
    [w EXCEPT !.pc = "ConditionalWrite", !.attempt = 0, !.current_version = v,
              !.final_update.expected_version = v]

ResAfterWrite(w, u) ==
    IF u.success
    THEN [w EXCEPT !.pc = "Broadcast", !.attempt = 0, !.update_result = u]
    ELSE [w EXCEPT !.pc = IF u.conflict THEN "Conflict" ELSE "Failed",
                   !.attempt = w.attempt + 1, !.update_result = u,
                   !.outcome = "returned", !.result = u]

ResAfterBroadcast(w) ==
    [w EXCEPT !.pc = "Done", !.attempt = w.attempt + 1,
              !.outcome = "returned", !.result = w.update_result]

\* execute_conflict_resolution: RuntimeError when the client is not
\* connected, else the workflow is started and its result awaited.
StartResolutionWith(updates) ==
    /\ res.pc = "idle"
    /\ res' = IF client
              THEN [IdleResolution EXCEPT
                      !.pc = "FetchVersion",
                      !.conflicting_updates = updates,
                      !.final_update = FinalUpdate(updates)]
              ELSE [IdleResolution EXCEPT
                      !.pc = "NotConnected", !.outcome = "raised",
                      !.raised = "RuntimeError"]
    /\ UNCHANGED <<client, wf, stream, queueVars, sessVars>>

StartResolution ==
    /\ res.pc = "idle"
    /\ \E updates \in ConflictingLists : StartResolutionWith(updates)

ResFetchFails ==
    /\ res.pc = "FetchVersion"
    /\ res.attempt < ResAttemptCap
    /\ res' = ResActivityFailed(res, "fetch_note_version")
    /\ UNCHANGED <<client, wf, stream, queueVars, sessVars>>

ResFetchReturns ==
    /\ res.pc = "FetchVersion"
    /\ res' = ResAfterFetch(res, fetch_note_version)
    /\ UNCHANGED <<client, wf, stream, queueVars, sessVars>>

ResWriteFails ==
    /\ res.pc = "ConditionalWrite"
    /\ res.attempt < ResAttemptCap
    /\ res' = ResActivityFailed(res, "update_note_in_db")
    /\ UNCHANGED <<client, wf, stream, queueVars, sessVars>>

ResWriteReturns ==
    /\ res.pc = "ConditionalWrite"
    /\ res' = [ResAfterWrite(res, update_note_in_db(res.final_update.content,
                                                    res.current_version,
                                                    res.final_update.user_id))
                 EXCEPT !.written = Append(@, res.final_update.content)]
    /\ UNCHANGED <<client, wf, stream, queueVars, sessVars>>

ResBroadcastFails ==
    /\ res.pc = "Broadcast"
    /\ res.attempt < ResAttemptCap
    /\ res' = ResActivityFailed(res, "broadcast_note_update")
    /\ UNCHANGED <<client, wf, stream, queueVars, sessVars>>

ResBroadcastReturns ==
    /\ res.pc = "Broadcast"
    /\ stream' = broadcast_note_update(stream,
                                       res.update_result.current_version,
                                       "resolution")
    /\ res' = ResAfterBroadcast(res)
    /\ UNCHANGED <<client, wf, queueVars, sessVars>>

(***************************************************************************)
(* session_state.py: the offline action queue.                             *)
(***************************************************************************)

\* json.dumps / json.loads of one queued action.
json_dumps(d) == [json |-> d]

json_loads(item) == item.json

\* api/session_state.py queue_offline_action: the action built from the
\* request; payload names the action.
OfflineAction(a) == [type |-> "action", payload |-> a, timestamp |-> "t"]

\* action["queued_at"] = datetime.utcnow().isoformat()
WithQueuedAt(action) ==
    [type |-> action.type, payload |-> action.payload,
     timestamp |-> action.timestamp, queued_at |-> "t"]

\* redis rpush
rpush(list, item) == Append(list, item)

\* redis lrange(key, start, stop) with stop counted from the end when negative
lrange(list, start, stop) ==
    SubSeq(list, start + 1, IF stop < 0 THEN Len(list) + 1 + stop ELSE stop + 1)

\* A read that misses the last element.
ReadQueueAllButLast(list) == lrange(list, 0, -2)

\* queue_data = lrange(queue_key, 0, -1)
ReadQueue(list) == lrange(list, 0, -1)

\* actions = [json.loads(item) for item in queue_data]
LoadActions(queue_data) ==
    [i \in 1..Len(queue_data) |-> json_loads(queue_data[i])]

\* A delete that leaves the list in place.
KeepQueue(list) == list

\* redis delete(queue_key): the key is gone, and its time to live with it.
DeleteQueue(list) == <<>>

\* A task that runs no handler; queue_data, device, user and state are the
\* locals of the handler a task runs.
IdleTask ==
    [op |-> "idle", pc |-> "idle", session |-> None, queue_data |-> <<>>,
     device |-> None, user |-> None, agent_state |-> None,
     metadata |-> [none |-> TRUE], state |-> [none |-> TRUE]]

\* History: at this moment session s has been ended (its row is inactive)
\* and its session:state entry has expired.
Gone(s) ==
    /\ s \in DOMAIN dbSession
    /\ dbSession[s] # [none |-> TRUE]
    /\ ~dbSession[s].is_active
    /\ cache[s] = [none |-> TRUE]

Enqueued(a) == \E i \in 1..Len(qlog) : qlog[i].ev = "push" /\ qlog[i].payload = a

DrainsBegun ==
    Cardinality({i \in 1..Len(qlog) : qlog[i].ev = "return"})
    + Cardinality({t \in Tasks : task[t].op = "replay"})

\* queue_offline_action up to its first Redis command: the rpush.
EnqueuePush(t, s, a) ==
    /\ task[t].op = "idle"
    /\ ~Enqueued(a)
    /\ redisQueue' = [redisQueue EXCEPT
                        ![s] = rpush(@, json_dumps(WithQueuedAt(OfflineAction(a))))]
    /\ task' = [task EXCEPT ![t] = [IdleTask EXCEPT !.op = "enqueue",
                                                    !.pc = "expire",
                                                    !.session = s]]
    /\ qlog' = Append(qlog, [ev |-> "push", session |-> s, payload |-> a,
                             actions |-> <<>>])
    /\ UNCHANGED <<queueTtl, docVars, sessVars>>

\* queue_offline_action: expire(queue_key, 86400), and the call returns.
EnqueueExpire(t) ==
    /\ task[t].op = "enqueue" /\ task[t].pc = "expire"
    /\ queueTtl' = [queueTtl EXCEPT
                      ![task[t].session] = redisQueue[task[t].session] # <<>>]
    /\ task' = [task EXCEPT ![t] = IdleTask]
    /\ UNCHANGED <<redisQueue, qlog, docVars, sessVars>>

\* replay_offline_queue up to its first Redis command: the lrange.
ReplayRead(t, s) ==
    /\ task[t].op = "idle"
    /\ DrainsBegun < MaxDrains
    /\ task' = [task EXCEPT ![t] = [IdleTask EXCEPT
                                      !.op = "replay", !.pc = "delete",
                                      !.session = s,
                                      !.queue_data = ReadQueue(redisQueue[s])]]
    /\ UNCHANGED <<redisQueue, queueTtl, qlog, docVars, sessVars>>

\* replay_offline_queue: delete(queue_key), and the call returns actions.
ReplayDelete(t) ==
    /\ task[t].op = "replay" /\ task[t].pc = "delete"
    /\ redisQueue' = [redisQueue EXCEPT ![task[t].session] = DeleteQueue(@)]
    /\ queueTtl' = [queueTtl EXCEPT
                      ![task[t].session] =
                          queueTtl[task[t].session]
                          /\ redisQueue'[task[t].session] # <<>>]
    /\ qlog' = Append(qlog, [gone |-> Gone(task[t].session), ev |-> "return",
                             session |-> task[t].session,
                             payload |-> 0,
                             actions |-> LoadActions(task[t].queue_data)])
    /\ task' = [task EXCEPT ![t] = IdleTask]
    /\ UNCHANGED <<docVars, sessVars>>

\* The 24 h time to live of the queue key runs out.
QueueExpires(s) ==
    /\ queueTtl[s]
    /\ redisQueue[s] # <<>>
    /\ redisQueue' = [redisQueue EXCEPT ![s] = <<>>]
    /\ queueTtl' = [queueTtl EXCEPT ![s] = FALSE]
    /\ qlog' = Append(qlog, [ev |-> "expired", session |-> s, payload |-> 0,
                             actions |-> LoadActions(redisQueue[s])])
    /\ UNCHANGED <<task, docVars, sessVars>>

\* queue_offline_action run from call to return with no other task between.
queue_offline_action(s, a) ==
    /\ \A t \in Tasks : task[t].op = "idle"
    /\ ~Enqueued(a)
    /\ redisQueue' = [redisQueue EXCEPT
                        ![s] = rpush(@, json_dumps(WithQueuedAt(OfflineAction(a))))]
    /\ queueTtl' = [queueTtl EXCEPT ![s] = TRUE]
    /\ qlog' = Append(qlog, [ev |-> "push", session |-> s, payload |-> a,
                             actions |-> <<>>])
    /\ UNCHANGED <<task, docVars, sessVars>>

\* replay_offline_queue run from call to return with no other task between.
replay_offline_queue(s) ==
    /\ \A t \in Tasks : task[t].op = "idle"
    /\ DrainsBegun < MaxDrains
    /\ redisQueue' = [redisQueue EXCEPT ![s] = DeleteQueue(@)]
    /\ queueTtl' = [queueTtl EXCEPT
                      ![s] = queueTtl[s] /\ redisQueue'[s] # <<>>]
    /\ qlog' = Append(qlog, [gone |-> Gone(s), ev |-> "return", session |-> s,
                             payload |-> 0,
                             actions |-> LoadActions(ReadQueue(redisQueue[s]))])
    /\ UNCHANGED <<task, docVars, sessVars>>

(***************************************************************************)
(* session_state.py: SessionStateService                                   *)
(***************************************************************************)

\* A metadata dict: each key of the model is absent or has a value.
EmptyMeta == [k \in MetaKeys |-> Absent]

\* Python's None where a dict or a state is expected, and a raised exception.
NoMeta == [none |-> TRUE]
NoState == [none |-> TRUE]
Raised == [raised |-> TRUE]

\* The metadata a create or an update request may carry (None: not given).
CreateMetas == {NoMeta, [EmptyMeta EXCEPT !["k2"] = "a"]}
UpdateMetas == {NoMeta, [EmptyMeta EXCEPT !["k1"] = "b"],
                [EmptyMeta EXCEPT !["k2"] = "b"]}

\* The agent_state an update request may carry (None: not given).
UpdateAgentStates == {None, "LISTENING"}

\* metadata or {}
OrEmpty(m) == IF m = NoMeta THEN EmptyMeta ELSE m

\* An assignment of the supplied dict in place of the merge.
DictReplace(old, new) == new

\* dict.update
DictUpdate(old, new) ==
    [k \in MetaKeys |-> IF new[k] # Absent THEN new[k] ELSE old[k]]

\* The id uuid4 gives the session the model creates.
NextSessionId == "s1"

\* AgentState: the value of an enum member, and the member of a value.
AgentStateValue(member) ==
    CASE member = "IDLE" -> "idle"
      [] member = "LISTENING" -> "listening"
      [] member = "THINKING" -> "thinking"
      [] member = "SPEAKING" -> "speaking"

AgentStateOf(value) ==
    CASE value = "idle" -> "IDLE"
      [] value = "listening" -> "LISTENING"
      [] value = "thinking" -> "THINKING"
      [] value = "speaking" -> "SPEAKING"

\* datetime.isoformat and datetime.fromisoformat
isoformat(t) == [iso |-> t]

fromisoformat(text) == text.iso

\* SessionState.to_dict
to_dict(state) ==
    [user_id |-> state.user_id,
     agent_state |-> AgentStateValue(state.agent_state),
     is_active |-> state.is_active,
     last_activity |-> isoformat(state.last_activity),
     transcript_count |-> state.transcript_count,
     metadata |-> state.metadata,
     device_ids |-> state.device_ids]

\* SessionState.from_dict
from_dict(data) ==
    [user_id |-> data.user_id,
     agent_state |-> AgentStateOf(data.agent_state),
     is_active |-> data.is_active,
     last_activity |-> fromisoformat(data.last_activity),
     transcript_count |-> data.transcript_count,
     metadata |-> data.metadata,
     device_ids |-> data.device_ids]

\* _save_to_redis: the value set at session:state:<id>.
save_to_redis(state) == json_dumps(to_dict(state))

\* _load_from_redis
load_from_redis(s) ==
    IF cache[s] = NoState THEN NoState ELSE from_dict(json_loads(cache[s]))

\* The session_snapshots row a commit inserts: created_at gets its default at
\* the insert, here the number of the insert among the session's snapshots.
Inserted(snaps, snapshot) ==
    Append(snaps,
           [session_id |-> snapshot.session_id,
            agent_state |-> snapshot.agent_state,
            transcript_count |-> snapshot.transcript_count,
            metadata |-> snapshot.metadata,
            device_ids |-> snapshot.device_ids,
            created_at |-> Len(snaps) + 1])

\* A choice of the snapshot with the least created_at.
OldestSnapshot(snaps) ==
    snaps[CHOOSE i \in 1..Len(snaps) :
            \A j \in 1..Len(snaps) : snaps[i].created_at <= snaps[j].created_at]

\* max(session.snapshots, key=lambda s: s.created_at)
LatestSnapshot(snaps) ==
    snaps[CHOOSE i \in 1..Len(snaps) :
            \A j \in 1..Len(snaps) : snaps[j].created_at <= snaps[i].created_at]

\* _load_from_db: the state rebuilt from the row and its latest snapshot.
load_from_db(s) ==
    LET row == dbSession[s]
        snaps == snapshots[s]
    IN  IF row = NoState THEN NoState
        ELSE IF snaps # <<>>
        THEN LET latest == LatestSnapshot(snaps)
             IN  [user_id |-> row.user_id,
                  agent_state |-> AgentStateOf(latest.agent_state),
                  is_active |-> row.is_active,
                  last_activity |-> row.updated_at,
                  transcript_count |-> latest.transcript_count,
                  metadata |-> latest.metadata,
                  device_ids |-> latest.device_ids]
        ELSE [user_id |-> row.user_id, agent_state |-> "IDLE",
              is_active |-> row.is_active, last_activity |-> row.updated_at,
              transcript_count |-> 0, metadata |-> row.metadata,
              device_ids |-> <<>>]

\* A read that goes to Postgres whatever the cache holds.
ReadStateSkipsCache(s) == load_from_db(s)

\* get_session_state: the state it returns (NoState: not found).
ReadState(s) ==
    IF load_from_redis(s) # NoState THEN load_from_redis(s) ELSE load_from_db(s)

\* A variant of get_session_state that returns what it loaded from Postgres
\* without restoring it to Redis.
ReturnWithoutRestore(s) == cache

\* The cache after get_session_state: a state it had to load is restored.
RestoreOnMiss(s) ==
    IF cache[s] = NoState /\ load_from_db(s) # NoState
    THEN [cache EXCEPT ![s] = save_to_redis(load_from_db(s))]
    ELSE cache

\* get_session_state restores a state it had to load to Redis (_save_to_redis
\* sets the key with ex=self.state_ttl); a hit leaves the key as it is.
TtlAfterRead(s) ==
    IF cache[s] = NoState /\ load_from_db(s) # NoState
    THEN [cacheTtl EXCEPT ![s] = "state_ttl"]
    ELSE cacheTtl

\* SessionSnapshot(...) built by _save_snapshot_to_db
SnapshotOf(s, state) ==
    [session_id |-> s, agent_state |-> AgentStateValue(state.agent_state),
     transcript_count |-> state.transcript_count,
     metadata |-> state.metadata, device_ids |-> state.device_ids]

\* A membership test that looks at the first element only.
InListFirstOnly(ids, d) == ids # <<>> /\ ids[1] = d

\* device_id in state.device_ids
InList(ids, d) == \E i \in 1..Len(ids) : ids[i] = d

\* list.remove: the first occurrence goes.
ListRemove(ids, d) ==
    LET first == CHOOSE i \in 1..Len(ids) :
                     ids[i] = d /\ \A j \in 1..(i - 1) : ids[j] # d
    IN  SubSeq(ids, 1, first - 1) \o SubSeq(ids, first + 1, Len(ids))

\* A remove that leaves is_active as it is.
AfterRemoveKeepsActive(cur, d) ==
    [cur EXCEPT !.device_ids = ListRemove(cur.device_ids, d)]

\* remove_device: the state after the device is removed from the list.
AfterRemove(cur, d) ==
    LET ids == ListRemove(cur.device_ids, d)
    IN  [cur EXCEPT !.device_ids = ids,
                    !.is_active = IF ids = <<>> THEN FALSE ELSE @]

\* update_state: the fields it changes.
AfterUpdate(cur, agent_state, metadata, now) ==
    [cur EXCEPT
       !.agent_state = IF agent_state # None THEN agent_state ELSE @,
       !.metadata = IF metadata # NoMeta THEN DictUpdate(@, metadata) ELSE @,
       !.last_activity = now]

\* A handler call in the history: its name, its session_id and device_id
\* arguments (None where it has none), what it returned, and whether it
\* repeats the call before it with the cache entry still there.
CalledWith(op, s, d, ret) ==
    [op |-> op, session |-> s, device |-> d, ret |-> ret,
     again |-> /\ lastOp.op = op /\ lastOp.session = s /\ lastOp.device = d
               /\ lastOp.ret # NoState /\ cache[s] # NoState]

Called(op, s, ret) == CalledWith(op, s, None, ret)

\* What a handler that stores or returns state does to the history.
Seen(s, state) ==
    IF state = NoState THEN lastActive
    ELSE [lastActive EXCEPT
            ![s] = IF state.is_active THEN "active" ELSE "inactive"]

\* A variant that awaits _save_snapshot_to_db instead of creating a task for
\* it, so that the snapshot's failure is raised to the caller.
WroteAwaitingSnapshot(op, s, d, state) ==
    /\ Len(pending) < MaxPending
    /\ cache' = [cache EXCEPT ![s] = save_to_redis(state)]
    /\ cacheTtl' = [cacheTtl EXCEPT ![s] = "state_ttl"]
    /\ pending' = pending
    /\ lastOp' \in {CalledWith(op, s, d, state), CalledWith(op, s, d, Raised)}
    /\ lastActive' = Seen(s, state)

\* A handler stored state with _save_to_redis, created the snapshot task and
\* returned state.
WroteWith(op, s, d, state) ==
    /\ Len(pending) < MaxPending
    /\ cache' = [cache EXCEPT ![s] = save_to_redis(state)]
    /\ cacheTtl' = [cacheTtl EXCEPT ![s] = "state_ttl"]
    /\ pending' = Append(pending, SnapshotOf(s, state))
    /\ lastOp' = CalledWith(op, s, d, state)
    /\ lastActive' = Seen(s, state)

Wrote(op, s, state) == WroteWith(op, s, None, state)

\* A handler returned what get_session_state gave it.
ReadOnlyWith(op, s, d) ==
    /\ cache' = RestoreOnMiss(s)
    /\ cacheTtl' = TtlAfterRead(s)
    /\ lastOp' = CalledWith(op, s, d, ReadState(s))
    /\ lastActive' = Seen(s, ReadState(s))
    /\ UNCHANGED pending

ReadOnly(op, s) == ReadOnlyWith(op, s, None)

\* create_session: the row is committed, then the state is cached.
create_session(u, d, m) ==
    /\ clock < MaxClock
    /\ dbSession[NextSessionId] = NoState
    /\ LET s == NextSessionId
           state == [user_id |-> u, agent_state |-> "IDLE", is_active |-> TRUE,
                     last_activity |-> clock + 1, transcript_count |-> 0,
                     metadata |-> OrEmpty(m), device_ids |-> <<d>>]
       IN  /\ dbSession' = [dbSession EXCEPT
                              ![s] = [user_id |-> u, is_active |-> TRUE,
                                      metadata |-> OrEmpty(m),
                                      updated_at |-> clock + 1]]
           /\ cache' = [cache EXCEPT ![s] = save_to_redis(state)]
           /\ cacheTtl' = [cacheTtl EXCEPT ![s] = "state_ttl"]
           /\ lastOp' = Called("create_session", s, state)
           /\ lastActive' = Seen(s, state)
    /\ clock' = clock + 1
    /\ UNCHANGED <<snapshots, pending, docVars, queueVars>>

\* create_session when db.commit() raises: nothing is cached.
create_session_fails(u, d, m) ==
    /\ clock < MaxClock
    /\ dbSession[NextSessionId] = NoState
    /\ lastOp' = Called("create_session", NextSessionId, Raised)
    /\ clock' = clock + 1
    /\ UNCHANGED <<cache, cacheTtl, dbSession, snapshots, pending, lastActive,
                   docVars, queueVars>>

\* A variant in which the row is not yet in the table when create_session
\* goes on to cache the state.
NotYetCommitted(rows, s, row) == rows

\* The voice_sessions table once db.commit() returned for the new row.
Committed(rows, s, row) == [rows EXCEPT ![s] = row]

\* create_session up to the await after db.commit(): the row is there, the
\* state object is built and nothing is cached yet.
CreateCommit(t, u, d, m) ==
    /\ clock < MaxClock
    /\ dbSession[NextSessionId] = NoState
    /\ task[t].op = "idle"
    /\ \A o \in Tasks : o < t => task[o].op # "idle"  \* first free slot
    /\ LET s == NextSessionId
           state == [user_id |-> u, agent_state |-> "IDLE", is_active |-> TRUE,
                     last_activity |-> clock + 1, transcript_count |-> 0,
                     metadata |-> OrEmpty(m), device_ids |-> <<d>>]
       IN  /\ dbSession' = Committed(dbSession, s,
                                      [user_id |-> u, is_active |-> TRUE,
                                       metadata |-> OrEmpty(m),
                                       updated_at |-> clock + 1])
           /\ task' = [task EXCEPT ![t] = [IdleTask EXCEPT
                                             !.op = "create_session",
                                             !.pc = "cache", !.session = s,
                                             !.device = d, !.state = state]]
    /\ clock' = clock + 1
    /\ UNCHANGED <<cache, cacheTtl, snapshots, pending, lastOp, lastActive,
                   redisQueue, queueTtl, qlog, docVars>>

\* create_session from there on: _save_to_redis(state), return state.
CreateCache(t) ==
    /\ task[t].op = "create_session"
    /\ task[t].pc = "cache"
    /\ LET s == task[t].session
           state == task[t].state
       IN  /\ cache' = [cache EXCEPT ![s] = save_to_redis(state)]
           /\ cacheTtl' = [cacheTtl EXCEPT ![s] = "state_ttl"]
           /\ lastOp' = Called("create_session", s, state)
           /\ lastActive' = Seen(s, state)
    /\ task' = [task EXCEPT ![t] = IdleTask]
    /\ UNCHANGED <<dbSession, snapshots, pending, clock, redisQueue, queueTtl,
                   qlog, docVars>>

\* get_session_state: Redis first; on a miss the state is loaded from
\* Postgres and restored to Redis.
get_session_state(s) ==
    /\ clock < MaxClock
    /\ ReadOnly("get_session_state", s)
    /\ clock' = clock + 1
    /\ UNCHANGED <<dbSession, snapshots, docVars, queueVars>>

\* update_state
update_state(s, agent_state, metadata) ==
    /\ clock < MaxClock
    /\ IF ReadState(s) = NoState
       THEN ReadOnly("update_state", s)
       ELSE Wrote("update_state", s,
                  AfterUpdate(ReadState(s), agent_state, metadata, clock + 1))
    /\ clock' = clock + 1
    /\ UNCHANGED <<dbSession, snapshots, docVars, queueVars>>

\* add_device
add_device(s, d) ==
    /\ clock < MaxClock
    /\ IF ReadState(s) # NoState /\ ~InList(ReadState(s).device_ids, d)
       THEN WroteWith("add_device", s, d,
                      [ReadState(s) EXCEPT !.device_ids = Append(@, d)])
       ELSE ReadOnlyWith("add_device", s, d)
    /\ clock' = clock + 1
    /\ UNCHANGED <<dbSession, snapshots, docVars, queueVars>>

\* remove_device
remove_device(s, d) ==
    /\ clock < MaxClock
    /\ IF ReadState(s) # NoState /\ InList(ReadState(s).device_ids, d)
       THEN WroteWith("remove_device", s, d, AfterRemove(ReadState(s), d))
       ELSE ReadOnlyWith("remove_device", s, d)
    /\ clock' = clock + 1
    /\ UNCHANGED <<dbSession, snapshots, docVars, queueVars>>

\* end_session: the final snapshot and the row update are awaited; the
\* cached state is not rewritten, its key gets the 300 s time to live.
end_session(s) ==
    /\ clock < MaxClock
    /\ IF ReadState(s) = NoState
       THEN /\ lastOp' = Called("end_session", s, NoState)
            /\ UNCHANGED <<cache, cacheTtl, dbSession, snapshots>>
       ELSE /\ cache' = RestoreOnMiss(s)
            /\ snapshots' =
                 [snapshots EXCEPT
                    ![s] = Inserted(@, SnapshotOf(s, [ReadState(s) EXCEPT
                                                        !.is_active = FALSE,
                                                        !.last_activity = clock + 1]))]
            /\ dbSession' = [dbSession EXCEPT ![s].is_active = FALSE,
                                              ![s].updated_at = clock + 1]
            /\ cacheTtl' = [cacheTtl EXCEPT ![s] = "grace"]
            /\ lastOp' = Called("end_session", s, NoState)
    /\ clock' = clock + 1
    /\ UNCHANGED <<pending, lastActive, docVars, queueVars>>

\* add_device / remove_device up to the return of get_session_state: the
\* task holds its own SessionState object, or the call returns None.
DeviceLoad(t, op, s, d) ==
    /\ clock < MaxClock
    /\ task[t].op = "idle"
    /\ \A u \in Tasks : u < t => task[u].op # "idle"  \* first free slot
    /\ cache' = RestoreOnMiss(s)
    /\ cacheTtl' = TtlAfterRead(s)
    /\ IF ReadState(s) = NoState
       THEN /\ lastOp' = CalledWith(op, s, d, NoState)
            /\ UNCHANGED task
       ELSE /\ task' = [task EXCEPT ![t] = [IdleTask EXCEPT
                                              !.op = op, !.pc = "mutate",
                                              !.session = s, !.device = d,
                                              !.state = ReadState(s)]]
            /\ UNCHANGED lastOp
    /\ clock' = clock + 1
    /\ UNCHANGED <<dbSession, snapshots, pending, lastActive, redisQueue,
                   queueTtl, qlog, docVars>>

\* What add_device or remove_device makes of the state object it holds.
Mutated(op, state, d) ==
    IF op = "add_device"
    THEN IF InList(state.device_ids, d) THEN state
         ELSE [state EXCEPT !.device_ids = Append(@, d)]
    ELSE IF InList(state.device_ids, d) THEN AfterRemove(state, d)
         ELSE state

\* add_device / remove_device from there on: the list is changed and the
\* state saved and snapshotted if the membership test says so, and the call
\* returns the state object.
DeviceSave(t) ==
    /\ task[t].op \in {"add_device", "remove_device"}
    /\ task[t].pc = "mutate"
    /\ LET s == task[t].session
           d == task[t].device
           new == Mutated(task[t].op, task[t].state, d)
       IN  /\ IF new # task[t].state
              THEN /\ Len(pending) < MaxPending
                   /\ cache' = [cache EXCEPT ![s] = save_to_redis(new)]
                   /\ cacheTtl' = [cacheTtl EXCEPT ![s] = "state_ttl"]
                   /\ pending' = Append(pending, SnapshotOf(s, new))
              ELSE UNCHANGED <<cache, cacheTtl, pending>>
           /\ lastOp' = CalledWith(task[t].op, s, d, new)
           /\ lastActive' = Seen(s, new)
    /\ task' = [task EXCEPT ![t] = IdleTask]
    /\ UNCHANGED <<dbSession, snapshots, clock, redisQueue, queueTtl, qlog,
                   docVars>>

\* update_state up to the return of get_session_state: the task holds its
\* own SessionState object and its arguments, or the call returns None.
UpdateLoad(t, s, agent_state, metadata) ==
    /\ clock < MaxClock
    /\ task[t].op = "idle"
    /\ \A u \in Tasks : u < t => task[u].op # "idle"  \* first free slot
    /\ cache' = RestoreOnMiss(s)
    /\ cacheTtl' = TtlAfterRead(s)
    /\ IF ReadState(s) = NoState
       THEN /\ lastOp' = Called("update_state", s, NoState)
            /\ UNCHANGED task
       ELSE /\ task' = [task EXCEPT ![t] = [IdleTask EXCEPT
                                              !.op = "update_state",
                                              !.pc = "mutate", !.session = s,
                                              !.agent_state = agent_state,
                                              !.metadata = metadata,
                                              !.state = ReadState(s)]]
            /\ UNCHANGED lastOp
    /\ clock' = clock + 1
    /\ UNCHANGED <<dbSession, snapshots, pending, lastActive, redisQueue,
                   queueTtl, qlog, docVars>>

\* update_state from there on: the fields are set, the state is saved to
\* Redis, the snapshot task is created and the call returns the state.
UpdateSave(t) ==
    /\ task[t].op = "update_state"
    /\ task[t].pc = "mutate"
    /\ WroteWith("update_state", task[t].session, None,
                 AfterUpdate(task[t].state, task[t].agent_state,
                             task[t].metadata, clock))
    /\ task' = [task EXCEPT ![t] = IdleTask]
    /\ UNCHANGED <<dbSession, snapshots, clock, redisQueue, queueTtl, qlog,
                   docVars>>

\* The time to live of session:state:<id> runs out.
CacheExpires(s) ==
    /\ cache[s] # NoState
    /\ cache' = [cache EXCEPT ![s] = NoState]
    /\ cacheTtl' = [cacheTtl EXCEPT ![s] = None]
    /\ UNCHANGED <<dbSession, snapshots, pending, clock, lastOp,
                   lastActive, docVars, queueVars>>

\* The tasks left when the one at position i is done.
RemoveAt(seq, i) == SubSeq(seq, 1, i - 1) \o SubSeq(seq, i + 1, Len(seq))

\* A task created for _save_snapshot_to_db commits its snapshot.
SnapshotCommits ==
    /\ pending # <<>>
    /\ \E i \in 1..Len(pending) :
         /\ snapshots' = [snapshots EXCEPT
                            ![pending[i].session_id] = Inserted(@, pending[i])]
         /\ pending' = RemoveAt(pending, i)
    /\ UNCHANGED <<cache, cacheTtl, dbSession, clock, lastOp, lastActive,
                   docVars, queueVars>>

\* _save_snapshot_to_db up to its await: the oldest task created starts to
\* run, builds its SessionSnapshot (held in state) and calls db.commit().
SnapshotBegins(t) ==
    /\ pending # <<>>
    /\ task[t].op = "idle"
    /\ \A o \in Tasks : o < t => task[o].op # "idle"  \* first free slot
    /\ task' = [task EXCEPT ![t] = [IdleTask EXCEPT
                                      !.op = "save_snapshot", !.pc = "commit",
                                      !.session = pending[1].session_id,
                                      !.state = pending[1]]]
    /\ pending' = Tail(pending)
    /\ UNCHANGED <<cache, cacheTtl, dbSession, snapshots, clock, lastOp,
                   lastActive, redisQueue, queueTtl, qlog, docVars>>

\* _save_snapshot_to_db from there on: the commit of one of the tasks that
\* await it returns, and its row is in the table.
SnapshotEnds(t) ==
    /\ task[t].op = "save_snapshot"
    /\ task[t].pc = "commit"
    /\ snapshots' = [snapshots EXCEPT
                       ![task[t].session] = Inserted(@, task[t].state)]
    /\ task' = [task EXCEPT ![t] = IdleTask]
    /\ UNCHANGED <<cache, cacheTtl, dbSession, pending, clock, lastOp,
                   lastActive, redisQueue, queueTtl, qlog, docVars>>

\* A task created for _save_snapshot_to_db raises: nobody awaits it.
SnapshotFails ==
    /\ pending # <<>>
    /\ \E i \in 1..Len(pending) : pending' = RemoveAt(pending, i)
    /\ UNCHANGED <<cache, cacheTtl, dbSession, snapshots, clock, lastOp,
                   lastActive, docVars, queueVars>>

(***************************************************************************)
(* main.py: the socket events reconnect_session and add_device_to_session. *)
(***************************************************************************)

\* data.get(...): the value sent, or None for a key that is missing.
OrMissing(values) == values \cup {None}

\* What a socket handler did: the event it was sent with its data, the event
\* it emitted to the caller, and the state it held then (NoState: none).
SocketCall(op, s, u, d, event, state) ==
    [op |-> op, session |-> s, user |-> u, device |-> d, event |-> event,
     ret |-> state, again |-> FALSE]

\* A check that lets every user pass.
OwnedByAnyone(state, user_id) == TRUE

\* The test 'state.user_id != user_id' of the socket handlers, negated.
OwnedBy(state, user_id) == state.user_id = user_id

\* metadata={'reconnected': True, 'reconnect_time': utcnow().isoformat()}:
\* the text of the instant is one value in the model.
ReconnectMeta ==
    [EmptyMeta EXCEPT !["reconnected"] = "True", !["reconnect_time"] = "now"]

\* reconnect_session up to the ownership check: the ids are read, the state
\* is loaded with get_session_state, and reconnect_failed is emitted for a
\* missing id, a session that is not found or a user who does not own it.
ReconnectLoad(t, s, u, d) ==
    /\ clock < MaxClock
    /\ task[t].op = "idle"
    /\ \A o \in Tasks : o < t => task[o].op # "idle"  \* first free slot
    /\ IF s = None \/ u = None
       THEN /\ lastOp' = SocketCall("reconnect_session", s, u, d,
                                    "reconnect_failed", NoState)
            /\ UNCHANGED <<cache, cacheTtl, task>>
       ELSE /\ cache' = RestoreOnMiss(s)
            /\ cacheTtl' = TtlAfterRead(s)
            /\ IF ReadState(s) = NoState
               THEN /\ lastOp' = SocketCall("reconnect_session", s, u, d,
                                            "reconnect_failed", NoState)
                    /\ UNCHANGED task
               ELSE IF ~OwnedBy(ReadState(s), u)
               THEN /\ lastOp' = SocketCall("reconnect_session", s, u, d,
                                            "reconnect_failed", ReadState(s))
                    /\ UNCHANGED task
               ELSE /\ task' = [task EXCEPT ![t] = [IdleTask EXCEPT
                                                      !.op = "reconnect_session",
                                                      !.pc = "add_device",
                                                      !.session = s,
                                                      !.user = u, !.device = d,
                                                      !.state = ReadState(s)]]
                    /\ UNCHANGED lastOp
    /\ clock' = clock + 1
    /\ UNCHANGED <<dbSession, snapshots, pending, lastActive, redisQueue,
                   queueTtl, qlog, docVars>>

\* reconnect_session: 'if device_id: state = await add_device(...)'.
ReconnectAddDevice(t) ==
    /\ task[t].op = "reconnect_session"
    /\ task[t].pc = "add_device"
    /\ LET s == task[t].session
           d == task[t].device
       IN  IF d = None
           THEN /\ task' = [task EXCEPT ![t].pc = "activate"]
                /\ UNCHANGED <<cache, cacheTtl, pending, lastOp, lastActive>>
           ELSE /\ IF ~InList(ReadState(s).device_ids, d)
                   THEN WroteWith("add_device", s, d,
                                  Mutated("add_device", ReadState(s), d))
                   ELSE ReadOnlyWith("add_device", s, d)
                /\ task' = [task EXCEPT
                              ![t].pc = "activate",
                              ![t].state = Mutated("add_device", ReadState(s), d)]
    /\ UNCHANGED <<dbSession, snapshots, clock, redisQueue, queueTtl, qlog,
                   docVars>>

\* reconnect_session: 'if not state.is_active': update_state with the
\* reconnect metadata, then is_active is set on the state it returned and
\* that state is stored with _save_to_redis.
ReconnectActivate(t) ==
    /\ task[t].op = "reconnect_session"
    /\ task[t].pc = "activate"
    /\ LET s == task[t].session
           updated == AfterUpdate(ReadState(s), None, ReconnectMeta, clock)
           activated == [updated EXCEPT !.is_active = TRUE]
       IN  IF task[t].state.is_active
           THEN /\ task' = [task EXCEPT ![t].pc = "replay"]
                /\ UNCHANGED <<cache, cacheTtl, pending, lastOp, lastActive>>
           ELSE /\ Len(pending) < MaxPending
                /\ pending' = Append(pending, SnapshotOf(s, updated))
                /\ cache' = [cache EXCEPT ![s] = save_to_redis(activated)]
                /\ cacheTtl' = [cacheTtl EXCEPT ![s] = "state_ttl"]
                /\ lastOp' = Called("update_state", s, updated)
                /\ lastActive' = Seen(s, activated)
                /\ task' = [task EXCEPT ![t].pc = "replay",
                                        ![t].state = activated]
    /\ UNCHANGED <<dbSession, snapshots, clock, redisQueue, queueTtl, qlog,
                   docVars>>

\* reconnect_session from there on: replay_offline_queue, then the
\* transcripts are read and session_restored is emitted with the state and
\* the queued actions.
ReconnectReplay(t) ==
    /\ task[t].op = "reconnect_session"
    /\ task[t].pc = "replay"
    /\ DrainsBegun < MaxDrains
    /\ LET s == task[t].session
       IN  /\ redisQueue' = [redisQueue EXCEPT ![s] = DeleteQueue(@)]
           /\ queueTtl' = [queueTtl EXCEPT
                             ![s] = queueTtl[s] /\ redisQueue'[s] # <<>>]
           /\ qlog' = Append(qlog,
                             [gone |-> Gone(s), ev |-> "return", session |-> s,
                              payload |-> 0,
                              actions |-> LoadActions(ReadQueue(redisQueue[s]))])
           /\ lastOp' = SocketCall("reconnect_session", s, task[t].user,
                                   task[t].device, "session_restored",
                                   task[t].state)
    /\ task' = [task EXCEPT ![t] = IdleTask]
    /\ UNCHANGED <<cache, cacheTtl, dbSession, snapshots, pending, clock,
                   lastActive, docVars>>

\* add_device_to_session: the device is added with add_device, and only then
\* is the user compared with the owner of the state add_device returned.
add_device_to_session(s, u, d) ==
    /\ clock < MaxClock
    /\ IF s = None \/ d = None
       THEN /\ lastOp' = SocketCall("add_device_to_session", s, u, d,
                                    "device_add_failed", NoState)
            /\ UNCHANGED <<cache, cacheTtl, pending, lastActive>>
       ELSE IF ReadState(s) = NoState
       THEN /\ lastOp' = SocketCall("add_device_to_session", s, u, d,
                                    "device_add_failed", NoState)
            /\ UNCHANGED <<cache, cacheTtl, pending, lastActive>>
       ELSE LET state == Mutated("add_device", ReadState(s), d)
            IN  /\ IF state # ReadState(s)
                   THEN /\ Len(pending) < MaxPending
                        /\ cache' = [cache EXCEPT ![s] = save_to_redis(state)]
                        /\ cacheTtl' = [cacheTtl EXCEPT ![s] = "state_ttl"]
                        /\ pending' = Append(pending, SnapshotOf(s, state))
                   ELSE /\ cache' = RestoreOnMiss(s)
                        /\ cacheTtl' = TtlAfterRead(s)
                        /\ UNCHANGED pending
                /\ lastActive' = Seen(s, state)
                /\ lastOp' = SocketCall("add_device_to_session", s, u, d,
                                        IF OwnedBy(state, u)
                                        THEN "device_added"
                                        ELSE "device_add_failed",
                                        state)
    /\ clock' = clock + 1
    /\ UNCHANGED <<dbSession, snapshots, docVars, queueVars>>

\* The session routes: the HTTP status answered for what the service
\* returned.  update_session_state raises its 404 inside a try block whose
\* 'except Exception' turns it into a 500; the two device routes raise it
\* outside any try block.
update_session_state_status(state) ==
    IF state = NoState THEN 500 ELSE 200

add_device_to_session_status(state) ==
    IF state = NoState THEN 404 ELSE 200

remove_device_from_session_status(state) ==
    IF state = NoState THEN 404 ELSE 200

RouteStatus(op, state) ==
    IF op = "update_state" THEN update_session_state_status(state)
    ELSE IF op = "add_device" THEN add_device_to_session_status(state)
    ELSE remove_device_from_session_status(state)

InitSession ==
    /\ cache = [s \in Sessions |-> NoState]
    /\ cacheTtl = [s \in Sessions |-> None]
    /\ dbSession = [s \in Sessions |-> NoState]
    /\ snapshots = [s \in Sessions |-> <<>>]
    /\ pending = <<>>
    /\ clock = 0
    /\ lastOp = [op |-> None, session |-> None, device |-> None,
                 ret |-> NoState, again |-> FALSE]
    /\ lastActive = [s \in Sessions |-> "unknown"]

InitDoc ==
    /\ client \in BOOLEAN
    /\ wf = [r \in Reqs |-> IdleRun]
    /\ res = IdleResolution
    /\ stream = <<>>

InitQueue ==
    /\ redisQueue = [s \in QSessions |-> <<>>]
    /\ queueTtl = [s \in QSessions |-> FALSE]
    /\ task = [t \in Tasks |-> IdleTask]
    /\ qlog = <<>>

Init == InitDoc /\ InitQueue /\ InitSession

\* Update requests, any number of them in flight at once.
NextDoc ==
    \E r \in Reqs :
        \/ Submit(r)
        \/ FetchFails(r)
        \/ FetchReturns(r)
        \/ WriteFails(r)
        \/ WriteReturns(r)
        \/ BroadcastFails(r)
        \/ BroadcastReturns(r)

Spec == Init /\ [][NextDoc]_vars

\* One update request and one conflict resolution over a list of one
\* request, interleaved.
NextRes ==
    \/ Submit(1)
    \/ FetchFails(1)
    \/ FetchReturns(1)
    \/ WriteFails(1)
    \/ WriteReturns(1)
    \/ BroadcastFails(1)
    \/ BroadcastReturns(1)
    \/ /\ res.pc = "idle"
       /\ \E updates \in [1..1 -> ConflictingRequests] :
            StartResolutionWith(updates)
    \/ ResFetchFails
    \/ ResFetchReturns
    \/ ResWriteFails
    \/ ResWriteReturns
    \/ ResBroadcastFails
    \/ ResBroadcastReturns

SpecRes == Init /\ [][NextRes]_vars

\* Update requests whose write attempts may also be lost after they ran.
\* The requests are those of one user: user_id is only passed through.
NextLostWrite ==
    \E r \in Reqs :
        \/ Submit(r) /\ wf'[r].user_id = "u1"
        \/ FetchFails(r)
        \/ FetchReturns(r)
        \/ WriteFails(r)
        \/ WriteLost(r)
        \/ WriteReturns(r)
        \/ BroadcastFails(r)
        \/ BroadcastReturns(r)

SpecLostWrite == Init /\ [][NextLostWrite]_vars

\* One conflict resolution run on its own, over every list of the model.
NextResolution ==
    \/ StartResolution
    \/ ResFetchFails
    \/ ResFetchReturns
    \/ ResWriteFails
    \/ ResWriteReturns
    \/ ResBroadcastFails
    \/ ResBroadcastReturns

SpecResolution == Init /\ [][NextResolution]_vars

\* Queue handlers interleaved at their Redis commands.
NextQueue ==
    \/ \E t \in Tasks, s \in QSessions, a \in 1..MaxActions : EnqueuePush(t, s, a)
    \/ \E t \in Tasks : EnqueueExpire(t)
    \/ \E t \in Tasks, s \in QSessions : ReplayRead(t, s)
    \/ \E t \in Tasks : ReplayDelete(t)
    \/ \E s \in QSessions : QueueExpires(s)

SpecQueue == Init /\ [][NextQueue]_vars

\* Queue handlers one after the other.
NextQueueSeq ==
    \/ \E s \in QSessions, a \in 1..MaxActions : queue_offline_action(s, a)
    \/ \E s \in QSessions : replay_offline_queue(s)
    \/ \E s \in QSessions : QueueExpires(s)

SpecQueueSeq == Init /\ [][NextQueueSeq]_vars

\* Session handlers one after the other, with cache expiry and the snapshot
\* tasks in between.
NextSession ==
    \/ \E u \in Users, d \in Devices, m \in CreateMetas : create_session(u, d, m)
    \/ \E u \in Users, d \in Devices, m \in CreateMetas :
         create_session_fails(u, d, m)
    \/ \E s \in Sessions : get_session_state(s)
    \/ \E s \in Sessions, a \in UpdateAgentStates, m \in UpdateMetas :
         update_state(s, a, m)
    \/ \E s \in Sessions, d \in Devices : add_device(s, d)
    \/ \E s \in Sessions, d \in Devices : remove_device(s, d)
    \/ \E s \in Sessions : end_session(s)
    \/ \E s \in Sessions : CacheExpires(s)
    \/ SnapshotCommits
    \/ SnapshotFails

SpecSession == Init /\ [][NextSession]_vars

\* The same handlers called by one user with no metadata: user_id and
\* metadata are only carried through the session service, so deeper runs
\* are explored with those two inputs fixed.
NextCore ==
    \/ \E d \in Devices : create_session("u1", d, NoMeta)
    \/ \E d \in Devices : create_session_fails("u1", d, NoMeta)
    \/ \E s \in Sessions : get_session_state(s)
    \/ \E s \in Sessions : update_state(s, "LISTENING", NoMeta)
    \/ \E s \in Sessions, d \in Devices : add_device(s, d)
    \/ \E s \in Sessions, d \in Devices : remove_device(s, d)
    \/ \E s \in Sessions : end_session(s)
    \/ \E s \in Sessions : CacheExpires(s)
    \/ SnapshotCommits
    \/ SnapshotFails

SpecCore == Init /\ [][NextCore]_vars

\* The device handlers interleaved at their awaits, with create_session,
\* cache expiry and the snapshot tasks.
NextDevices ==
    \/ \E d \in Devices : create_session("u1", d, NoMeta)
    \/ \E t \in Tasks, op \in {"add_device", "remove_device"},
          s \in Sessions, d \in Devices : DeviceLoad(t, op, s, d)
    \/ \E t \in Tasks : DeviceSave(t)
    \/ \E s \in Sessions : CacheExpires(s)
    \/ SnapshotCommits

SpecDevices == Init /\ [][NextDevices]_vars

\* create_session split at the await between the commit and the cache
\* write, with the other handlers, cache expiry and the snapshot tasks
\* running in between.
NextCreate ==
    \/ \E t \in Tasks, d \in Devices : CreateCommit(t, "u1", d, NoMeta)
    \/ \E d \in Devices : create_session_fails("u1", d, NoMeta)
    \/ \E t \in Tasks : CreateCache(t)
    \/ \E s \in Sessions : get_session_state(s)
    \/ \E s \in Sessions : update_state(s, "LISTENING", NoMeta)
    \/ \E s \in Sessions, d \in Devices : add_device(s, d)
    \/ \E s \in Sessions, d \in Devices : remove_device(s, d)
    \/ \E s \in Sessions : end_session(s)
    \/ \E s \in Sessions : CacheExpires(s)
    \/ SnapshotCommits
    \/ SnapshotFails

SpecCreate == Init /\ [][NextCreate]_vars

\* The queue handlers run one after the other while one session is created,
\* loses its device, is ended and has its cache entry expire.  Actions are
\* enqueued in the order of their numbers, and the session handlers are
\* called one time less than MaxClock allows.
NextQueueSession ==
    \/ \E s \in QSessions, a \in 1..MaxActions :
         (\A b \in 1..(a - 1) : Enqueued(b)) /\ queue_offline_action(s, a)
    \/ \E s \in QSessions : replay_offline_queue(s)
    \/ clock + 1 < MaxClock /\ create_session("u1", "d1", NoMeta)
    \/ \E s \in Sessions : clock + 1 < MaxClock /\ remove_device(s, "d1")
    \/ \E s \in Sessions : clock + 1 < MaxClock /\ end_session(s)
    \/ \E s \in Sessions : CacheExpires(s)

SpecQueueSession == Init /\ [][NextQueueSession]_vars

\* update_state split at the await between get_session_state and the save,
\* with create_session, cache expiry and the snapshot tasks; a call sets
\* agent_state or metadata or neither, and one call is in progress at a time.
NextUpdate ==
    \/ \E m \in CreateMetas : create_session("u1", "d1", m)
    \/ \E t \in Tasks, s \in Sessions, a \in UpdateAgentStates,
          m \in UpdateMetas :
            /\ a = None \/ m = NoMeta
            /\ \A u \in Tasks : task[u].op = "idle"
            /\ UpdateLoad(t, s, a, m)
    \/ \E t \in Tasks : UpdateSave(t)
    \/ \E s \in Sessions : CacheExpires(s)
    \/ SnapshotCommits

SpecUpdate == Init /\ [][NextUpdate]_vars

\* update_state and the device handlers, each split at its await, running
\* at once on one session.
NextWriters ==
    \/ \E d \in Devices : create_session("u1", d, NoMeta)
    \/ \E t \in Tasks, s \in Sessions, a \in UpdateAgentStates,
          m \in UpdateMetas : UpdateLoad(t, s, a, m)
    \/ \E t \in Tasks : UpdateSave(t)
    \/ \E t \in Tasks, op \in {"add_device", "remove_device"},
          s \in Sessions, d \in Devices : DeviceLoad(t, op, s, d)
    \/ \E t \in Tasks : DeviceSave(t)
    \/ SnapshotCommits

SpecWriters == Init /\ [][NextWriters]_vars

\* reconnect_session, one call at a time, on a session that either user
\* created, with one offline action, remove_device, cache expiry and the
\* snapshot tasks.
NextReconnect ==
    \/ \E u \in Users : create_session(u, "d1", NoMeta)
    \/ \E s \in QSessions : queue_offline_action(s, 1)
    \/ \E s \in Sessions : remove_device(s, "d1")
    \/ /\ \A o \in Tasks : task[o].op = "idle"
       /\ \E t \in Tasks, s \in OrMissing(Sessions), u \in OrMissing(Users),
             d \in OrMissing({"d2"}) : ReconnectLoad(t, s, u, d)
    \/ \E t \in Tasks : ReconnectAddDevice(t)
    \/ \E t \in Tasks : ReconnectActivate(t)
    \/ \E t \in Tasks : ReconnectReplay(t)
    \/ \E s \in Sessions : CacheExpires(s)
    \/ SnapshotCommits

SpecReconnect == Init /\ [][NextReconnect]_vars

\* add_device_to_session and reconnect_session, one call at a time, on a
\* session that either user created.
NextSockets ==
    \/ \E u \in Users : create_session(u, "d1", NoMeta)
    \/ /\ \A o \in Tasks : task[o].op = "idle"
       /\ \E t \in Tasks, s \in OrMissing(Sessions), u \in OrMissing(Users),
             d \in OrMissing({"d2"}) : ReconnectLoad(t, s, u, d)
    \/ \E t \in Tasks : ReconnectAddDevice(t)
    \/ \E t \in Tasks : ReconnectActivate(t)
    \/ \E t \in Tasks : ReconnectReplay(t)
    \/ /\ \A o \in Tasks : task[o].op = "idle"
       /\ \E s \in OrMissing(Sessions), u \in OrMissing(Users),
             d \in OrMissing({"d2"}) : add_device_to_session(s, u, d)
    \/ \E s \in Sessions : remove_device(s, "d1")
    \/ SnapshotCommits

SpecSockets == Init /\ [][NextSockets]_vars

\* The writers of one session called one after the other, with their
\* snapshot tasks running in the background, each split at its db.commit().
NextSnapshots ==
    \/ create_session("u1", "d1", NoMeta)
    \/ \E s \in Sessions : update_state(s, "LISTENING", NoMeta)
    \/ \E s \in Sessions, d \in Devices : add_device(s, d)
    \/ \E s \in Sessions, d \in Devices : remove_device(s, d)
    \/ \E t \in Tasks : SnapshotBegins(t)
    \/ \E t \in Tasks : SnapshotEnds(t)

SpecSnapshots == Init /\ [][NextSnapshots]_vars

(***************************************************************************)
(* Properties.                                                             *)
(***************************************************************************)

Activities == {"fetch_note_version", "update_note_in_db", "broadcast_note_update"}

Returned(r) == wf[r].outcome = "returned"

PublishedBy(by) == {i \in 1..Len(stream) : stream[i].by = by}

\* C1: of two update requests with expected_version = 0 submitted together
\* for a note nothing else has written, one succeeds with version 1 and the
\* other gets conflict = true with current_version = 1; never do both succeed.
C1_OneCreateWins ==
    \A a, b \in Reqs :
        ( /\ a # b
          /\ Returned(a) /\ Returned(b)
          /\ wf[a].expected_version = 0 /\ wf[b].expected_version = 0
          /\ \A c \in Reqs \ {a, b} : wf[c].pc = "idle" )
        => /\ ~(wf[a].result.success /\ wf[b].result.success)
           /\ \E w \in {a, b}, l \in {a, b} :
                 /\ w # l
                 /\ wf[w].result.success
                 /\ wf[w].result.current_version = 1
                 /\ ~wf[l].result.success
                 /\ wf[l].result.conflict
                 /\ wf[l].result.current_version = 1

\* C2: a successful write takes the version it observed to exactly that
\* version plus one, and of the requests that observed the same version at
\* most one succeeds.
C2_OneWriterPerVersion ==
    /\ \A r \in Reqs :
         Returned(r) /\ wf[r].result.success
         => wf[r].result.current_version = wf[r].current_version + 1
    /\ \A a, b \in Reqs :
         ( /\ a # b
           /\ Returned(a) /\ wf[a].result.success
           /\ Returned(b) /\ wf[b].result.success )
         => wf[a].current_version # wf[b].current_version

\* C6: a run whose fetched version differs from its expected_version is in
\* Conflict with success = false, conflict = true and current_version = the
\* fetched version, has made no write and published nothing; a create
\* succeeds only on a fetched version of 0.
C6_MismatchIsConflictWithoutMutation ==
    \A r \in Reqs :
        /\ ( wf[r].current_version # -1
             /\ wf[r].current_version # wf[r].expected_version )
           => /\ wf[r].pc = "Conflict"
              /\ wf[r].outcome = "returned"
              /\ ~wf[r].result.success
              /\ wf[r].result.conflict
              /\ wf[r].result.current_version = wf[r].current_version
              /\ wf[r].update_result = NoResult
              /\ PublishedBy(r) = {}
        /\ ( wf[r].via = "create_note" /\ Returned(r) /\ wf[r].result.success )
           => wf[r].current_version = 0

C6_Witness ==
    \E r \in Reqs :
        /\ wf[r].pc = "Conflict"
        /\ wf[r].expected_version = 2
        /\ wf[r].current_version = 1
        /\ \E q \in Reqs : wf[q].pc = "Done" /\ PublishedBy(q) # {}

\* C7: a request whose write committed and whose broadcast failed on all its
\* attempts gets an answer that differs from the answer of a success and from
\* the answer of a failure in which nothing was written.
C7_PartialFailureIsDistinct ==
    \A a, b \in Reqs :
        ( /\ wf[a].pc = "Failed"
          /\ wf[a].raised = "broadcast_note_update"
          /\ wf[a].update_result.success
          /\ \/ wf[b].pc = "Done"
             \/ wf[b].pc = "Failed" /\ ~wf[b].update_result.success )
        => update_note_response(wf[a]) # update_note_response(wf[b])

\* C8: once a run has seen a version mismatch, at step 2 or from the write,
\* it takes no further step (no fetch, write or broadcast attempt) and what
\* it has returned is the conflict result with the fetched version.
C8_ConflictIsNeverRetried ==
    [][ \A r \in Reqs :
          ( \/ ( wf[r].current_version # -1
                 /\ wf[r].current_version # wf[r].expected_version )
            \/ wf[r].update_result.conflict )
          => /\ wf'[r] = wf[r]
             /\ \A i \in 1..Len(stream') : i > Len(stream) => stream'[i].by # r
             /\ wf[r].outcome = "returned"
             /\ wf[r].result.conflict
             /\ wf[r].update_result.conflict
                \/ wf[r].result.current_version = wf[r].current_version ]_vars

C8_Witness ==
    \E r, q \in Reqs :
        /\ wf[r].pc = "Conflict"
        /\ wf[r].result.conflict
        /\ wf[r].result.current_version = 1
        /\ wf[q].pc = "Broadcast"

\* The steps a run can still take are bounded by this measure.
StepRank(pc) ==
    CASE pc = "idle" -> 4
      [] pc = "FetchVersion" -> 3
      [] pc = "ConditionalWrite" -> 2
      [] pc = "Broadcast" -> 1
      [] OTHER -> 0

StepsLeft(w) ==
    IF StepRank(w.pc) = 0 THEN 0
    ELSE StepRank(w.pc) * (maximum_attempts + 1) - w.attempt

Running(r) == wf[r].pc \in {"FetchVersion", "ConditionalWrite", "Broadcast"}

\* C9: a run ends in exactly one of Done, Conflict and Failed: no activity is
\* attempted more than 3 times, a run is Failed exactly when an activity
\* failed on its 3rd attempt, and then the error of that activity is raised;
\* a run that has not ended can always take a step, and every step brings it
\* closer to its end.
C9_RunsEndWithinThreeAttempts ==
    /\ [](\A r \in Reqs :
            /\ wf[r].attempt <= 3
            /\ Running(r) => wf[r].attempt < 3 /\ wf[r].outcome = None
            /\ Running(r) =>
                 ENABLED (\/ FetchFails(r) \/ FetchReturns(r)
                          \/ WriteFails(r) \/ WriteReturns(r)
                          \/ BroadcastFails(r) \/ BroadcastReturns(r))
            /\ wf[r].pc = "Failed"
                 <=> ( wf[r].outcome = "raised" /\ wf[r].attempt = 3
                       /\ wf[r].raised \in Activities )
            /\ wf[r].pc = "Done"
                 <=> ( wf[r].outcome = "returned" /\ wf[r].result.success )
            /\ wf[r].pc = "Conflict"
                 <=> ( wf[r].outcome = "returned" /\ wf[r].result.conflict ))
    /\ [][ \A r \in Reqs :
             wf'[r] # wf[r] => StepsLeft(wf'[r]) < StepsLeft(wf[r]) ]_vars

C9_Witness ==
    \E a, b \in Reqs :
        /\ wf[a].pc = "Failed" /\ wf[a].attempt = 3
        /\ wf[a].raised = "broadcast_note_update"
        /\ wf[b].pc = "Done" /\ wf[b].attempt = 3

\* C10: a version conflict of an update run or of the resolution run is
\* returned as a result with success = false and conflict = true, never
\* raised; what a run raises is the failure of an activity on its last
\* attempt or of the client's connection.
C10_ConflictIsAResultNotAnError ==
    /\ \A r \in Reqs :
         /\ ( \/ ( wf[r].current_version # -1
                   /\ wf[r].current_version # wf[r].expected_version )
              \/ wf[r].update_result.conflict )
            => /\ wf[r].outcome = "returned"
               /\ wf[r].result.conflict
               /\ ~wf[r].result.success
         /\ wf[r].outcome = "raised"
            => /\ wf[r].raised \in Activities
               /\ wf[r].attempt = maximum_attempts
               /\ ~wf[r].result.conflict
    /\ res.update_result.conflict
       => /\ res.outcome = "returned"
          /\ res.result.conflict
          /\ ~res.result.success
    /\ res.outcome = "raised"
       => /\ res.raised \in Activities \cup {"RuntimeError"}
          /\ ~res.result.conflict

C10_Witness ==
    /\ wf[1].pc = "Conflict"
    /\ wf[1].outcome = "returned"
    /\ res.pc = "Done"
    /\ res.outcome = "returned"

\* The log positions at which a drain returned action a.
ReturnsOf(a) ==
    {i \in 1..Len(qlog) :
        /\ qlog[i].ev = "return"
        /\ \E k \in 1..Len(qlog[i].actions) : qlog[i].actions[k].payload = a}

StillQueued(a) ==
    \E s \in QSessions : \E k \in 1..Len(redisQueue[s]) :
        json_loads(redisQueue[s][k]).payload = a

ExpiredUnread(a) ==
    \E i \in 1..Len(qlog) :
        /\ qlog[i].ev = "expired"
        /\ \E k \in 1..Len(qlog[i].actions) : qlog[i].actions[k].payload = a

\* C3: with drains and enqueues of one session interleaved, an enqueued
\* action is returned by exactly one drain: until then it is still in the
\* queue (or has expired there), and no action is returned by two drains.
C3_DrainIsAtomic ==
    \A a \in 1..MaxActions :
        Enqueued(a)
        => /\ Cardinality(ReturnsOf(a)) <= 1
           /\ ReturnsOf(a) # {} \/ StillQueued(a) \/ ExpiredUnread(a)

\* What the caller of queue_offline_action supplied of a returned action.
Supplied(x) == [type |-> x.type, payload |-> x.payload, timestamp |-> x.timestamp]

\* The last drain of session s before log position j, or 0.
LastDrainBefore(s, j) ==
    LET D == {i \in 1..(j - 1) : qlog[i].ev = "return" /\ qlog[i].session = s}
    IN IF D = {} THEN 0 ELSE CHOOSE i \in D : \A k \in D : k <= i

\* The actions enqueued on session s at log positions i+1..j, in order.
RECURSIVE EnqueuedBetween(_, _, _)
EnqueuedBetween(s, i, j) ==
    IF j <= i THEN <<>>
    ELSE LET before == EnqueuedBetween(s, i, j - 1)
         IN IF qlog[j].ev = "push" /\ qlog[j].session = s
            THEN Append(before, OfflineAction(qlog[j].payload))
            ELSE before

\* C4: with the handlers run one after the other and no expiry, a drain of a
\* session returns the actions enqueued on it since its previous drain, in
\* the order of their enqueues; so a drain that follows a drain at once
\* returns the empty list.
C4_DrainReturnsEnqueuedInOrder ==
    \A j \in 1..Len(qlog) :
        LET s == qlog[j].session
            i == LastDrainBefore(s, j)
        IN ( /\ qlog[j].ev = "return"
             /\ \A e \in (i + 1)..(j - 1) :
                  ~(qlog[e].ev = "expired" /\ qlog[e].session = s) )
           => /\ [k \in 1..Len(qlog[j].actions) |-> Supplied(qlog[j].actions[k])]
                 = EnqueuedBetween(s, i, j)
              /\ ( i = j - 1 /\ i > 0 ) => qlog[j].actions = <<>>

C4_Witness ==
    \E j \in 2..Len(qlog) :
        /\ qlog[j].ev = "return" /\ qlog[j - 1].ev = "return"
        /\ qlog[j].session = qlog[j - 1].session
        /\ Len(qlog[j - 1].actions) = 2
        /\ qlog[j - 1].actions[1].payload = 2
        /\ qlog[j - 1].actions[2].payload = 1
        /\ qlog[j].actions = <<>>

\* C5: a call of update_state on a session that was last stored or returned
\* with is_active = false, whether or not its cache entry has expired since,
\* neither stores nor returns the session with is_active = true.
C5_UpdateNeverReactivates ==
    [][ \A s \in Sessions :
          ( /\ lastActive[s] = "inactive"
            /\ clock' # clock
            /\ lastOp'.op = "update_state"
            /\ lastOp'.session = s
            /\ lastOp'.ret # NoState )
          => /\ ~lastOp'.ret.is_active
             /\ ~json_loads(cache'[s]).is_active ]_vars

\* C11: the answer to a request whose run returned a conflict, through
\* update_note or through create_note, carries the run's current_version and
\* the expected_version of the request.
C11_ConflictResponseCarriesVersions ==
    \A r \in Reqs :
        ( Returned(r) /\ wf[r].result.conflict )
        => \A resp \in Responses(wf[r]) :
              /\ resp.version = wf[r].result.current_version
              /\ resp.expected_version = wf[r].expected_version

\* A successful call of create_session was the last handler call and the
\* cache entry it wrote has not expired.
JustCreated(s) ==
    /\ lastOp.op = "create_session"
    /\ lastOp.session = s
    /\ lastOp.ret # Raised
    /\ cache[s] # NoState

\* C12: a get_session_state that follows create_session(u, d, m) with no
\* other call and no expiry in between returns agent_state IDLE, is_active
\* true and device_ids = [d], the state create_session returned.
C12_ReadAfterCreate ==
    [][ \A s \in Sessions :
          ( /\ JustCreated(s)
            /\ clock' # clock
            /\ lastOp'.op = "get_session_state"
            /\ lastOp'.session = s )
          => /\ lastOp'.ret # NoState
             /\ lastOp'.ret.agent_state = "IDLE"
             /\ lastOp'.ret.is_active
             /\ Len(lastOp'.ret.device_ids) = 1
             /\ lastOp'.ret = lastOp.ret ]_vars

C12_Witness ==
    /\ clock = 2
    /\ lastOp.op = "get_session_state"
    /\ lastOp.ret # NoState
    /\ lastOp.ret.device_ids = <<"d2">>
    /\ lastOp.ret.agent_state = "IDLE"
    /\ lastOp.ret.last_activity = 1
    /\ snapshots["s1"] = <<>>

\* The state held at session:state:<id> after the step.
StoredAfter(s) == from_dict(json_loads(cache'[s]))

\* C13: after a call of remove_device on a session that exists, the device
\* having been a member or not, the state stored and returned has
\* is_active = false if its device_ids is empty, and the is_active the
\* session had before the call if it is not.
C13_InactiveExactlyWhenNoDevice ==
    [][ \A s \in Sessions :
          ( /\ clock' # clock
            /\ lastOp'.op = "remove_device"
            /\ lastOp'.session = s
            /\ lastOp'.ret # NoState )
          => /\ StoredAfter(s) = lastOp'.ret
             /\ lastOp'.ret.device_ids = <<>> => ~lastOp'.ret.is_active
             /\ lastOp'.ret.device_ids # <<>>
                => lastOp'.ret.is_active = ReadState(s).is_active ]_vars

\* The step is a call of op on session s with the device of the call before
\* it, which was a call of op on s too, and the cache entry has not expired
\* in between.
SameCallAgain(op, s) ==
    /\ lastOp.op = op
    /\ lastOp.session = s
    /\ lastOp.ret # NoState
    /\ cache[s] # NoState
    /\ clock' # clock
    /\ lastOp'.op = op
    /\ lastOp'.session = s
    /\ lastOp'.device = lastOp.device

\* C14: add_device(s, d) called twice in a row leaves the device_ids the
\* first call left, and so does remove_device(s, d) called twice in a row.
C14_DeviceCallsAreIdempotent ==
    [][ \A s \in Sessions :
          ( SameCallAgain("add_device", s) \/ SameCallAgain("remove_device", s) )
          => /\ lastOp'.ret # NoState
             /\ lastOp'.ret.device_ids = lastOp.ret.device_ids
             /\ StoredAfter(s).device_ids = lastOp.ret.device_ids ]_vars

C14_Witness ==
    /\ lastOp.op = "add_device"
    /\ lastOp.device = "d2"
    /\ lastOp.again
    /\ lastOp.ret # NoState
    /\ lastOp.ret.device_ids = <<"d1", "d2">>

NoDuplicate(ids) ==
    \A i, j \in 1..Len(ids) : i # j => ids[i] # ids[j]

\* C15: the device_ids of every cached session state and of every snapshot,
\* committed or about to be, holds no device id twice, however create,
\* add_device, remove_device and reloads after a cache miss interleave.
C15_NoDuplicateDevice ==
    /\ \A s \in Sessions :
         /\ cache[s] # NoState
            => NoDuplicate(from_dict(json_loads(cache[s])).device_ids)
         /\ \A i \in 1..Len(snapshots[s]) :
              NoDuplicate(snapshots[s][i].device_ids)
    /\ \A i \in 1..Len(pending) : NoDuplicate(pending[i].device_ids)
    /\ \A t \in Tasks :
         task[t].state # NoState => NoDuplicate(task[t].state.device_ids)

C15_Witness ==
    /\ Len(snapshots["s1"]) = 2
    /\ snapshots["s1"][1].device_ids = <<"d1", "d2">>
    /\ snapshots["s1"][2].device_ids = <<"d1", "d2">>
    /\ cache["s1"] # NoState
    /\ from_dict(json_loads(cache["s1"])).device_ids = <<"d1", "d2">>
    /\ \A t \in Tasks : task[t].op = "idle"

\* The snapshots of s with no other snapshot of s created after them.
Newest(s) ==
    {i \in 1..Len(snapshots[s]) :
        \A j \in 1..Len(snapshots[s]) :
            snapshots[s][j].created_at <= snapshots[s][i].created_at}

\* C16: get_session_state returns the cached state on a hit and leaves the
\* cache entry and its time to live alone; on a miss with a voice_sessions
\* row it returns the state rebuilt from the snapshot with the greatest
\* created_at, or a fresh IDLE state with no device if there is no snapshot,
\* and stores that state in the cache; with no row it returns None and
\* stores nothing.
C16_ReadHitMissNotFound ==
    [][ \A s \in Sessions :
          ( /\ clock' # clock
            /\ lastOp'.op = "get_session_state"
            /\ lastOp'.session = s )
          => LET ret == lastOp'.ret
             IN  /\ cache[s] # NoState
                    => /\ ret = from_dict(json_loads(cache[s]))
                       /\ cache'[s] = cache[s]
                       /\ cacheTtl'[s] = cacheTtl[s]
                 /\ ( cache[s] = NoState /\ dbSession[s] # NoState )
                    => /\ ret # NoState
                       /\ ret.user_id = dbSession[s].user_id
                       /\ snapshots[s] # <<>>
                          => \E i \in Newest(s) :
                               /\ AgentStateValue(ret.agent_state)
                                  = snapshots[s][i].agent_state
                               /\ ret.transcript_count
                                  = snapshots[s][i].transcript_count
                               /\ ret.metadata = snapshots[s][i].metadata
                               /\ ret.device_ids = snapshots[s][i].device_ids
                       /\ snapshots[s] = <<>>
                          => /\ ret.agent_state = "IDLE"
                             /\ ret.transcript_count = 0
                             /\ ret.device_ids = <<>>
                       /\ cache'[s] # NoState
                       /\ StoredAfter(s) = ret
                 /\ ( cache[s] = NoState /\ dbSession[s] = NoState )
                    => /\ ret = NoState
                       /\ cache'[s] = NoState ]_vars

C16_Witness ==
    /\ lastOp.op = "get_session_state"
    /\ lastOp.ret # NoState
    /\ Len(snapshots["s1"]) = 2
    /\ snapshots["s1"][1].device_ids # snapshots["s1"][2].device_ids
    /\ lastOp.ret.device_ids = snapshots["s1"][2].device_ids
    /\ lastOp.ret.last_activity = dbSession["s1"].updated_at
    /\ cacheTtl["s1"] = "state_ttl"

\* C17: update_state, add_device and remove_device on a session that has
\* neither a cache entry nor a voice_sessions row answer not found (None from
\* the service, 404 from the route) and leave the cache, the snapshots, the
\* snapshot tasks and the row as they were.
C17_UnknownSessionIsNotFound ==
    [][ \A s \in Sessions :
          ( /\ clock' # clock
            /\ lastOp'.op \in {"update_state", "add_device", "remove_device"}
            /\ lastOp'.session = s
            /\ cache[s] = NoState
            /\ dbSession[s] = NoState )
          => /\ lastOp'.ret = NoState
             /\ RouteStatus(lastOp'.op, lastOp'.ret) = 404
             /\ cache'[s] = NoState
             /\ dbSession'[s] = NoState
             /\ snapshots' = snapshots
             /\ pending' = pending ]_vars

\* C18: after every step each session:state entry belongs to a session that
\* has a voice_sessions row (the cache starts empty), create_session caches
\* only after its row is committed,
\* and a create_session whose commit raises leaves the cache as it was.
C18_NoOrphanedCacheEntry ==
    [][ /\ \A s \in Sessions : cache'[s] # NoState => dbSession'[s] # NoState
        /\ \A t \in Tasks :
             ( task[t].op = "create_session" /\ task'[t].op = "idle" )
             => /\ dbSession[task[t].session] # NoState
                /\ cache'[task[t].session] # NoState
        /\ ( clock' # clock /\ lastOp'.ret = Raised )
             => cache' = cache /\ cacheTtl' = cacheTtl ]_vars

C18_Witness ==
    /\ lastOp.op = "create_session"
    /\ lastOp.ret # NoState
    /\ lastOp.ret # Raised
    /\ cache["s1"] # NoState
    /\ dbSession["s1"] # NoState
    /\ from_dict(json_loads(cache["s1"])) = lastOp.ret

\* What get_session_state hands to a handler called in this state.
FinalState(s) ==
    IF cache[s] # NoState THEN from_dict(json_loads(cache[s]))
    ELSE load_from_db(s)

\* C19: when end_session returns for a session that has a cache entry or a
\* voice_sessions row, a snapshot of the state it read is committed as the
\* latest one, the row is inactive, and the session:state entry exists with
\* the 300 second time to live.
C19_EndSnapshotsAndKeepsCache ==
    [][ \A s \in Sessions :
          ( /\ clock' # clock
            /\ lastOp'.op = "end_session"
            /\ lastOp'.session = s
            /\ ( cache[s] # NoState \/ dbSession[s] # NoState ) )
          => /\ Len(snapshots'[s]) = Len(snapshots[s]) + 1
             /\ \A i \in 1..Len(snapshots[s]) :
                  snapshots'[s][i] = snapshots[s][i]
             /\ LET last == LatestSnapshot(snapshots'[s])
                IN  /\ last = snapshots'[s][Len(snapshots'[s])]
                    /\ last.agent_state
                         = AgentStateValue(FinalState(s).agent_state)
                    /\ last.transcript_count = FinalState(s).transcript_count
                    /\ last.metadata = FinalState(s).metadata
                    /\ last.device_ids = FinalState(s).device_ids
             /\ ~dbSession'[s].is_active
             /\ cache'[s] # NoState
             /\ cacheTtl'[s] = "grace" ]_vars

C19_Witness ==
    /\ lastOp.op = "end_session"
    /\ lastOp.session = "s1"
    /\ dbSession["s1"] # NoState
    /\ ~dbSession["s1"].is_active
    /\ snapshots["s1"] # <<>>
    /\ cache["s1"] # NoState
    /\ cacheTtl["s1"] = "grace"

\* The queue of session s has expired since its last drain.
ExpiredSinceLastDrain(s) ==
    \E e \in (LastDrainBefore(s, Len(qlog) + 1) + 1)..Len(qlog) :
        qlog[e].ev = "expired" /\ qlog[e].session = s

\* C20: whatever has happened to the session (device removed, ended, cache
\* entry expired), a drain of its queue that is not preceded by an expiry of
\* the queue returns the actions enqueued since the previous drain, in order;
\* and a step that is neither a drain nor the expiry of the queue itself
\* removes nothing from the queue.
C20_QueueOutlivesSession ==
    [][ \A s \in QSessions :
          LET drained == /\ Len(qlog') = Len(qlog) + 1
                         /\ qlog'[Len(qlog')].ev = "return"
                         /\ qlog'[Len(qlog')].session = s
              expired == /\ Len(qlog') = Len(qlog) + 1
                         /\ qlog'[Len(qlog')].ev = "expired"
                         /\ qlog'[Len(qlog')].session = s
          IN  /\ ( drained /\ ~ExpiredSinceLastDrain(s) )
                 => LET got == qlog'[Len(qlog')].actions
                    IN  [k \in 1..Len(got) |-> Supplied(got[k])]
                        = EnqueuedBetween(s, LastDrainBefore(s, Len(qlog) + 1),
                                          Len(qlog))
              /\ ~( drained \/ expired )
                 => /\ Len(redisQueue'[s]) >= Len(redisQueue[s])
                    /\ SubSeq(redisQueue'[s], 1, Len(redisQueue[s]))
                       = redisQueue[s]
                    /\ redisQueue[s] # <<>> => queueTtl'[s] = queueTtl[s]
              /\ clock' # clock
                 => redisQueue' = redisQueue /\ queueTtl' = queueTtl ]_vars

\* Two actions were enqueued while the session was active, the session was
\* ended and its cache entry expired, and the drain after that returned both.
C20_Witness ==
    /\ Len(qlog) = 3
    /\ qlog[1].ev = "push" /\ qlog[2].ev = "push" /\ qlog[3].ev = "return"
    /\ Len(qlog[3].actions) = 2
    /\ qlog[3].actions[1].payload = 1
    /\ qlog[3].actions[2].payload = 2
    /\ lastOp.op = "end_session"
    /\ dbSession["s1"] # NoState
    /\ ~dbSession["s1"].is_active
    /\ qlog[3].gone
    /\ cache["s1"] = NoState

\* The versions successful writes of the update runs have reported.
CommittedVersions ==
    {wf[r].update_result.current_version :
        r \in {q \in Reqs : wf[q].update_result.success}}

\* C21: the resolution run writes with the version it fetched itself as the
\* expected version and publishes only after its write succeeded; and when
\* its write returns while an update run has committed a version other than
\* the one the resolution fetched, the resolution ends in Conflict with no
\* successful write.
C21_ResolutionWriteIsConditional ==
    [][ /\ ( res.pc = "ConditionalWrite" /\ res'.pc # "ConditionalWrite" )
           => /\ res'.update_result.success
                 => res'.update_result.current_version = res.current_version + 1
              /\ ( \E v \in CommittedVersions : v # res.current_version )
                 => /\ res'.pc = "Conflict"
                    /\ ~res'.update_result.success
                    /\ res'.result.conflict
        /\ ( res' # res /\ stream' # stream )
           => /\ res.update_result.success
              /\ stream' = broadcast_note_update(stream,
                                                 res.update_result.current_version,
                                                 "resolution") ]_vars

\* The session_snapshots row snap is the snapshot of state.
SnapshotIsOf(snap, s, state) ==
    /\ snap.session_id = SnapshotOf(s, state).session_id
    /\ snap.agent_state = SnapshotOf(s, state).agent_state
    /\ snap.transcript_count = SnapshotOf(s, state).transcript_count
    /\ snap.metadata = SnapshotOf(s, state).metadata
    /\ snap.device_ids = SnapshotOf(s, state).device_ids

\* C22: when the latest snapshot of a session is the snapshot of the state
\* the last handler call returned and the cache entry has expired, the state
\* get_session_state rebuilds from that snapshot equals that state in every
\* field.
C22_SnapshotRoundTrip ==
    [][ \A s \in Sessions :
          ( /\ clock' # clock
            /\ lastOp'.op = "get_session_state"
            /\ lastOp'.session = s
            /\ cache[s] = NoState
            /\ lastOp.session = s
            /\ lastOp.ret # NoState
            /\ lastOp.ret # Raised
            /\ snapshots[s] # <<>>
            /\ SnapshotIsOf(LatestSnapshot(snapshots[s]), s, lastOp.ret) )
          => lastOp'.ret = lastOp.ret ]_vars

\* C23: on a note nothing has written, an update with expected_version = 0
\* returns success with version 1; an update with expected_version = 0 that
\* returns after that gets the conflict result with current_version = 1; and
\* an update whose expected_version is the current_version of a conflict
\* result returns success with that version plus one.
C23_ResubmitAfterConflictSucceeds ==
    /\ \A a \in Reqs :
         ( /\ Returned(a)
           /\ wf[a].expected_version = 0
           /\ \A c \in Reqs \ {a} : wf[c].pc = "idle" )
         => /\ wf[a].result.success
            /\ wf[a].result.current_version = 1
    /\ \A a, b \in Reqs :
         ( /\ a # b
           /\ Returned(a) /\ wf[a].result.success
           /\ wf[a].result.current_version = 1
           /\ Returned(b) /\ wf[b].expected_version = 0
           /\ \A c \in Reqs \ {a, b} : wf[c].pc = "idle" )
         => /\ wf[b].result.conflict
            /\ wf[b].result.current_version = 1
    /\ \A a, b \in Reqs :
         ( /\ a # b
           /\ Returned(a) /\ wf[a].result.conflict
           /\ Returned(b)
           /\ wf[b].expected_version = wf[a].result.current_version
           /\ \A c \in Reqs \ {a, b} : ~wf[c].update_result.success )
         => /\ wf[b].result.success
            /\ wf[b].result.current_version
               = wf[a].result.current_version + 1

\* C24: update_state works on the state get_session_state gives it; the
\* state it returns has the supplied agent_state if one was supplied and
\* else the old one, the supplied metadata keys over the old metadata, and
\* the old device_ids, is_active, user_id and transcript_count; and that
\* state is in the cache, with the full time to live, when the call returns.
C24_UpdateMergesAndWritesThrough ==
    [][ \A t \in Tasks :
          /\ ( task[t].op = "idle" /\ task'[t].op = "update_state" )
             => task'[t].state = FinalState(task'[t].session)
          /\ ( task[t].op = "update_state" /\ task'[t].op = "idle" )
             => LET s == task[t].session
                    old == task[t].state
                    a == task[t].agent_state
                    m == task[t].metadata
                    ret == lastOp'.ret
                IN  /\ lastOp'.op = "update_state"
                    /\ ret.agent_state
                       = IF a # None THEN a ELSE old.agent_state
                    /\ \A k \in MetaKeys :
                         ret.metadata[k]
                         = IF m # NoMeta /\ m[k] # Absent THEN m[k]
                           ELSE old.metadata[k]
                    /\ ret.device_ids = old.device_ids
                    /\ ret.is_active = old.is_active
                    /\ ret.user_id = old.user_id
                    /\ ret.transcript_count = old.transcript_count
                    /\ cache'[s] # NoState
                    /\ StoredAfter(s) = ret
                    /\ cacheTtl'[s] = "state_ttl" ]_vars

C24_Witness ==
    /\ lastOp.op = "update_state"
    /\ lastOp.ret # NoState
    /\ lastOp.ret.agent_state = "LISTENING"
    /\ lastOp.ret.metadata["k1"] = "b"
    /\ lastOp.ret.metadata["k2"] = "a"
    /\ lastOp.ret.device_ids = <<"d1">>
    /\ cache["s1"] # NoState
    /\ from_dict(json_loads(cache["s1"])) = lastOp.ret

\* C25: update_state, add_device and remove_device never raise; a call that
\* created a snapshot task returns the updated state with that state in the
\* cache while the task is still pending; and when a snapshot task fails,
\* the cache and what the call returned stay as they were.
C25_SnapshotFailureIsNotSurfaced ==
    [][ /\ \A s \in Sessions :
             ( /\ clock' # clock
               /\ lastOp'.op \in {"update_state", "add_device", "remove_device"}
               /\ lastOp'.session = s )
             => /\ lastOp'.ret # Raised
                /\ Len(pending') > Len(pending)
                   => /\ lastOp'.ret # NoState
                      /\ StoredAfter(s) = lastOp'.ret
                      /\ SnapshotIsOf(pending'[Len(pending')], s, lastOp'.ret)
        /\ ( Len(pending') < Len(pending) /\ snapshots' = snapshots )
             => /\ cache' = cache
                /\ cacheTtl' = cacheTtl
                /\ lastOp' = lastOp ]_vars

\* update_state returned the updated state, the cache holds it, and its
\* snapshot task has failed: nothing is pending and no snapshot was stored.
C25_Witness ==
    /\ lastOp.op = "update_state"
    /\ lastOp.ret # NoState
    /\ lastOp.ret.agent_state = "LISTENING"
    /\ pending = <<>>
    /\ snapshots["s1"] = <<>>
    /\ cache["s1"] # NoState
    /\ from_dict(json_loads(cache["s1"])) = lastOp.ret

\* C26: with update_state, add_device and remove_device running at once on
\* one session, a call that saves leaves in the stored state every field it
\* does not set as the stored state had it just before the save: so the
\* changes of two writers to different fields are both there when both have
\* completed.
C26_FieldLevelLastWriteWins ==
    [][ \A t \in Tasks :
          LET s == task[t].session
          IN  ( /\ task[t].op \in {"update_state", "add_device", "remove_device"}
                /\ task'[t].op = "idle"
                /\ cache[s] # NoState
                /\ cache'[s] # cache[s] )
              => LET before == from_dict(json_loads(cache[s]))
                     after == StoredAfter(s)
                 IN  IF task[t].op = "update_state"
                     THEN /\ after.device_ids = before.device_ids
                          /\ after.is_active = before.is_active
                          /\ task[t].agent_state = None
                             => after.agent_state = before.agent_state
                          /\ \A k \in MetaKeys :
                               ( \/ task[t].metadata = NoMeta
                                 \/ task[t].metadata[k] = Absent )
                               => after.metadata[k] = before.metadata[k]
                     ELSE /\ after.agent_state = before.agent_state
                          /\ after.metadata = before.metadata ]_vars

\* C27: when the write of an update run returns while another run has
\* committed a version other than the one this run expects, the run ends in
\* Conflict: its write did not succeed and its result carries conflict = true
\* and the committed version.
C27_WriteRevalidatesVersion ==
    [][ \A r \in Reqs :
          ( /\ wf[r].pc = "ConditionalWrite"
            /\ wf'[r].pc \notin {"ConditionalWrite", "Failed"} )
          => \A q \in Reqs \ {r} :
               ( /\ wf[q].update_result.success
                 /\ wf[q].update_result.current_version
                    # wf[r].expected_version )
               => /\ wf'[r].pc = "Conflict"
                  /\ ~wf'[r].update_result.success
                  /\ wf'[r].result.conflict
                  /\ wf'[r].result.current_version
                     = wf[q].update_result.current_version ]_vars

\* The steps of run in their order, and the ends a run can come to.
StepOrder(pc) ==
    CASE pc = "idle" -> {"FetchVersion", "Unavailable"}
      [] pc = "FetchVersion" -> {"ConditionalWrite", "Conflict", "Failed"}
      [] pc = "ConditionalWrite" -> {"Broadcast", "Conflict", "Failed"}
      [] pc = "Broadcast" -> {"Done", "Failed"}
      [] OTHER -> {}

\* C28: a run goes through fetch, comparison, write and broadcast in that
\* order; an event is published only by a run at its broadcast step, whose
\* write has returned success, and it carries the version that write
\* reported; a run that ended in Conflict or whose write did not succeed has
\* published nothing.
C28_BroadcastOnlyAfterCommittedWrite ==
    [][ /\ \A r \in Reqs :
             /\ wf'[r].pc # wf[r].pc => wf'[r].pc \in StepOrder(wf[r].pc)
             /\ wf'[r].update_result # wf[r].update_result
                => wf[r].pc = "ConditionalWrite"
             /\ ( wf'[r].pc = "Conflict" \/ ~wf'[r].update_result.success )
                => PublishedBy(r)' = {}
        /\ Len(stream') >= Len(stream)
        /\ \A i \in 1..Len(stream') :
             IF i <= Len(stream) THEN stream'[i] = stream[i]
             ELSE LET r == stream'[i].by
                  IN  /\ i = Len(stream) + 1
                      /\ wf[r].pc = "Broadcast"
                      /\ wf[r].update_result.success
                      /\ wf[r].current_version = wf[r].expected_version
                      /\ stream'[i].version
                         = wf[r].update_result.current_version ]_vars

C28_Witness ==
    \E a, b \in Reqs :
        /\ wf[a].pc = "Done"
        /\ PublishedBy(a) = {1}
        /\ stream[1].version = 2
        /\ wf[b].pc = "Failed"
        /\ wf[b].raised = "update_note_in_db"
        /\ PublishedBy(b) = {}

\* The request last-write-wins on user_id selects: of the requests with the
\* greatest user_id, the one latest in the list.
Winner(updates) ==
    updates[CHOOSE i \in 1..Len(updates) :
              \A j \in 1..Len(updates) :
                  \/ UserRank(updates[j].user_id) < UserRank(updates[i].user_id)
                  \/ /\ updates[j].user_id = updates[i].user_id
                     /\ j <= i]

PermutationsOf(updates) ==
    {[i \in 1..Len(updates) |-> updates[p[i]]] :
        p \in {q \in [1..Len(updates) -> 1..Len(updates)] :
                 \A i, j \in 1..Len(updates) : q[i] = q[j] => i = j}}

\* C30: the request a resolution run selects depends only on which requests
\* the list holds, not on their order: every permutation of the list the run
\* was started with selects a request of the same content and the same user
\* as the one the run selected, also when requests share a user_id.
C30_WinnerIndependentOfOrder ==
    res.pc \notin {"idle", "NotConnected"}
    => \A other \in PermutationsOf(res.conflicting_updates) :
         /\ FinalUpdate(other).content = res.final_update.content
         /\ FinalUpdate(other).user_id = res.final_update.user_id

\* C31: once end_session gave a session's cache entry the grace time to
\* live, no later call on the session gives the entry a longer one: from
\* then on the entry keeps the grace time to live until it is gone.
C31_EndedEntryKeepsGraceTtl ==
    [][\A s \in Sessions :
         cacheTtl[s] = "grace" => cacheTtl'[s] \in {"grace", None}]_vars

ResRunning == res.pc \in {"FetchVersion", "ConditionalWrite", "Broadcast"}

\* C32: the resolution run attempts each of its activities at most
\* maximum_attempts times: an activity that is still to be attempted has
\* failed fewer than maximum_attempts times, and the run is Failed once an
\* activity failed on its last attempt.
C32_ResolutionStepsAttemptedThrice ==
    /\ res.attempt <= maximum_attempts
    /\ ResRunning => res.attempt < maximum_attempts

C34_EndedSessionReadsInactive ==
    \A s \in Sessions :
        /\ lastOp.op = "get_session_state"
        /\ lastOp.session = s
        /\ lastOp.ret # NoState
        /\ dbSession[s] # NoState
        /\ ~dbSession[s].is_active
        => ~lastOp.ret.is_active

\* A step in which a reconnect_session call ends with reconnect_failed.
ReconnectFails ==
    /\ clock' = clock + 1
    /\ task' = task
    /\ lastOp'.op = "reconnect_session"
    /\ lastOp'.event = "reconnect_failed"

\* A step in which the offline queue is read out and deleted.
QueueDrained ==
    /\ Len(qlog') = Len(qlog) + 1
    /\ qlog'[Len(qlog')].ev = "return"

\* C35: a reconnect_session call that ends with reconnect_failed for a
\* missing id, an unknown session or a user who does not own the session
\* leaves the offline queue as it was and the session's device_ids and
\* is_active as get_session_state gave them before, and creates no snapshot
\* task; and the queue is drained only by a reconnect_session call whose
\* user is the owner of the session.
C35_FailedReconnectChangesNothing ==
    [][ /\ ReconnectFails
           => /\ redisQueue' = redisQueue
              /\ queueTtl' = queueTtl
              /\ qlog' = qlog
              /\ pending' = pending
              /\ snapshots' = snapshots
              /\ dbSession' = dbSession
              /\ \A s \in Sessions : ReadState(s)' = ReadState(s)
        /\ QueueDrained
           => \E t \in Tasks :
                /\ task[t].op = "reconnect_session"
                /\ task'[t].op = "idle"
                /\ dbSession[task[t].session] # NoState
                /\ task[t].user = dbSession[task[t].session].user_id ]_vars

C35_Witness ==
    /\ lastOp.op = "reconnect_session"
    /\ lastOp.event = "reconnect_failed"
    /\ lastOp.session = "s1"
    /\ lastOp.user = "u2"
    /\ lastOp.ret # NoState
    /\ lastOp.ret.user_id = "u1"
    /\ redisQueue["s1"] # <<>>
    /\ \E i \in 1..Len(qlog) : qlog[i].ev = "return" /\ qlog[i].actions = <<>>

\* A step in which an add_device_to_session or reconnect_session call of a
\* user who does not own session s comes to its end.
CallOfAnotherUser(s) ==
    /\ clock' = clock + 1
    /\ task' = task
    /\ lastOp'.op \in {"add_device_to_session", "reconnect_session"}
    /\ lastOp'.session = s
    /\ dbSession[s] # NoState
    /\ lastOp'.user # dbSession[s].user_id

\* C36: an add_device_to_session or reconnect_session call whose user_id is
\* not the user_id of the session leaves the session's device_ids as they
\* were, in Redis and in the snapshots written or still to be written.
C36_OnlyOwnerAddsDevice ==
    [][\A s \in Sessions :
         CallOfAnotherUser(s)
         => /\ ReadState(s)'.device_ids = ReadState(s).device_ids
            /\ pending' = pending
            /\ snapshots' = snapshots]_vars

\* No snapshot task is waiting to run or awaiting its commit.
SnapshotsSettled ==
    /\ pending = <<>>
    /\ \A t \in Tasks : task[t].op # "save_snapshot"

\* C37: when every snapshot task created for a session has committed, the
\* snapshot with the greatest created_at has the agent_state, metadata and
\* device_ids of the state in Redis, in whatever order the tasks committed.
C37_LatestSnapshotIsLastWrite ==
    \A s \in Sessions :
        /\ SnapshotsSettled
        /\ cache[s] # NoState
        /\ snapshots[s] # <<>>
        => LET latest == LatestSnapshot(snapshots[s])
               state == load_from_redis(s)
           IN  /\ AgentStateOf(latest.agent_state) = state.agent_state
               /\ latest.metadata = state.metadata
               /\ latest.device_ids = state.device_ids

\* C38: in every state create_session, update_state, add_device and
\* remove_device store for a session that was not ended, is_active is false
\* exactly when device_ids is empty; a session that has a device after
\* add_device is active.
C38_ActiveExactlyWhenDevices ==
    \A s \in Sessions :
        cache[s] # NoState
        => ( load_from_redis(s).is_active
             <=> load_from_redis(s).device_ids # <<>> )

\* C39: a create_note request whose run returned an unsuccessful result is
\* answered with status 409, and a create_note request is answered with
\* status 500 only when its run raised.
C39_CreateConflictIs409 ==
    \A r \in Reqs :
        wf[r].via = "create_note" /\ wf[r].outcome # None
        => \A response \in create_note_responses(wf[r]) :
             /\ wf[r].outcome = "returned" /\ ~wf[r].result.success
                => response.status = 409
             /\ response.status = 500 => wf[r].outcome = "raised"

====
